---- MODULE Spec2Model ----
(***************************************************************************)
(* Model of the physics core of the solar-system simulator:                *)
(*   physics/nbody.py   compute_accelerations, step_system                 *)
(*   physics/pn1.py     compute_pn_accelerations                           *)
(*   physics/diagnostics.py, model/body.py, model/system.py                *)
(*                                                                         *)
(* Numbers.  The program computes with IEEE binary floating point          *)
(* (numpy float64): every +, -, *, /, sqrt is the exact result rounded to  *)
(* the nearest representable value, ties to even.  The model keeps that    *)
(* semantics with a significand of Prec bits instead of 53 and an          *)
(* unbounded exponent: a number is <<m, e>>, standing for m * 2^e, with    *)
(* m = 0 /\ e = 0 or 2^(Prec-1) <= |m| < 2^Prec.  Every operation below is *)
(* correctly rounded, and the operations are applied in the order the      *)
(* code's expressions apply them.                                          *)
(***************************************************************************)
EXTENDS Integers, Sequences, FiniteSets, TLC

\* Bits of significand kept by the model's floating point arithmetic.
Prec == 11

\* ------------------------------------------------------------------------
\* Floating point arithmetic
\* ------------------------------------------------------------------------

RECURSIVE BitLen(_)
BitLen(n) == IF n = 0 THEN 0 ELSE 1 + BitLen(n \div 2)

IAbs(n) == IF n < 0 THEN -n ELSE n

ISign(n) == IF n < 0 THEN -1 ELSE 1

RECURSIVE ISqrt(_)
ISqrt(n) ==
    IF n < 2 THEN n
    ELSE LET s == 2 * ISqrt(n \div 4)
         IN  IF (s + 1) * (s + 1) <= n THEN s + 1 ELSE s

\* Round, the bits past Prec cut off: the significand q kept, one more when
\* the bits cut lie above half a unit (up), and the carry out of Prec bits.
RoundCut(sign, e, q, up) ==
    IF (IF up THEN q + 1 ELSE q) = 2^Prec
    THEN <<sign * 2^(Prec - 1), e + 1>>
    ELSE <<sign * (IF up THEN q + 1 ELSE q), e>>

\* Round, n # 0, with a = |n| and L the number of bits of a.
RoundBits(n, e, a, L) ==
    IF L <= Prec
    THEN <<n * 2^(Prec - L), e - (Prec - L)>>
    ELSE RoundCut(ISign(n), e + (L - Prec), a \div 2^(L - Prec),
                  \/ a % 2^(L - Prec) > 2^(L - Prec - 1)
                  \/ /\ a % 2^(L - Prec) = 2^(L - Prec - 1)
                     /\ (a \div 2^(L - Prec)) % 2 = 1)

\* The integer n * 2^e rounded to Prec significant bits, ties to even.
Round(n, e) ==
    IF n = 0 THEN <<0, 0>> ELSE RoundBits(n, e, IAbs(n), BitLen(IAbs(n)))

Zero == <<0, 0>>

FromInt(n) == Round(n, 0)

FNeg(a) == <<-a[1], a[2]>>

FAbs(a) == <<IAbs(a[1]), a[2]>>

FMul(a, b) == Round(a[1] * b[1], a[2] + b[2])

FAdd(a, b) ==
    IF a[1] = 0 THEN b
    ELSE IF b[1] = 0 THEN a
    ELSE LET hi == IF a[2] >= b[2] THEN a ELSE b
             lo == IF a[2] >= b[2] THEN b ELSE a
             d  == hi[2] - lo[2]
         IN  IF d > Prec + 1 THEN hi
             ELSE Round(hi[1] * 2^d + lo[1], lo[2])

FSub(a, b) == FAdd(a, FNeg(b))

\* a / b, b # 0: the quotient to Prec + 3 bits with a sticky bit, rounded.
FDiv(a, b) ==
    IF a[1] = 0 THEN Zero
    ELSE LET num == IAbs(a[1]) * 2^(Prec + 2)
             den == IAbs(b[1])
             q   == num \div den
             st  == IF num % den = 0 THEN 0 ELSE 1
             sg  == ISign(a[1]) * ISign(b[1])
         IN  Round(sg * (2 * q + st), a[2] - b[2] - (Prec + 2) - 1)

\* sqrt(a), a >= 0: the root to Prec + 1 bits or more with a sticky bit.
FSqrt(a) ==
    IF a[1] = 0 THEN Zero
    ELSE LET k  == IF (a[2] - (Prec + 2)) % 2 = 0 THEN Prec + 2 ELSE Prec + 3
             n  == a[1] * 2^k
             s  == ISqrt(n)
             st == IF s * s = n THEN 0 ELSE 1
         IN  Round(2 * s + st, ((a[2] - k) \div 2) - 1)

\* Comparison of the values two numbers stand for.
FSgn(a) == IF a[1] > 0 THEN 1 ELSE IF a[1] < 0 THEN -1 ELSE 0

FLt(a, b) == FSgn(FSub(a, b)) < 0

FLe(a, b) == FSgn(FSub(a, b)) <= 0

\* The decimal literal num / den of the source text (numerator and denominator
\* rounded first, so the literal is met to within a unit in the last place).
FromRatio(num, den) == FDiv(FromInt(num), FromInt(den))

\* ------------------------------------------------------------------------
\* constants.py
\* ------------------------------------------------------------------------

\* math.pi
Pi == Round(3294199, -20)

\* G = 4.0 * math.pi**2
G == FMul(FromInt(4), FMul(Pi, Pi))

\* DT = 0.001
DT == FromRatio(1, 1000)

\* EPS_ACCEL = 1e-5
EPS_ACCEL == FromRatio(1, 100000)

ENABLE_1PN_DEFAULT == TRUE

\* SECONDS_PER_YEAR = DAY_IN_SECONDS * DAYS_PER_YEAR
SECONDS_PER_YEAR == FMul(FromInt(86400), FromRatio(36525, 100))

\* AU_IN_METERS = 149_597_870_700.0
AU_IN_METERS == FMul(FromInt(1495978707), FromInt(100))

\* C_SI = 299_792_458.0
C_SI == FromInt(299792458)

\* C_AU_PER_YR = C_SI * SECONDS_PER_YEAR / AU_IN_METERS
C_AU_PER_YR == FDiv(FMul(C_SI, SECONDS_PER_YEAR), AU_IN_METERS)

\* ------------------------------------------------------------------------
\* numpy vectors of shape (3,)
\* ------------------------------------------------------------------------

ZeroVec == <<Zero, Zero, Zero>>

VAdd(u, v) == <<FAdd(u[1], v[1]), FAdd(u[2], v[2]), FAdd(u[3], v[3])>>

VSub(u, v) == <<FSub(u[1], v[1]), FSub(u[2], v[2]), FSub(u[3], v[3])>>

\* scalar * vector (and vector * scalar)
VScale(s, v) == <<FMul(s, v[1]), FMul(s, v[2]), FMul(s, v[3])>>

\* np.dot(u, v)
Dot(u, v) == FAdd(FAdd(FMul(u[1], v[1]), FMul(u[2], v[2])), FMul(u[3], v[3]))

\* np.cross(u, v)
Cross(u, v) ==
    << FSub(FMul(u[2], v[3]), FMul(u[3], v[2])),
       FSub(FMul(u[3], v[1]), FMul(u[1], v[3])),
       FSub(FMul(u[1], v[2]), FMul(u[2], v[1])) >>

\* A vector of small integers.
IVec(x, y, z) == <<FromInt(x), FromInt(y), FromInt(z)>>

\* ------------------------------------------------------------------------
\* math and numpy elementary functions
\* ------------------------------------------------------------------------
\* The library's sin, cos, tan, atan2 and acos are not correctly rounded but
\* accurate to about a unit in the last place.  The model computes them in
\* its own arithmetic, by argument reduction and a short series, to within a
\* few units in the last place; like the library's, the reduction works with
\* pi itself (Pi + PiLo), not with the rounded constant math.pi.

\* pi - math.pi, to working precision
PiLo == Round(843314857 - Pi[1] * 2^(28 + Pi[2]), -28)

HalfPi == <<Pi[1], Pi[2] - 1>>

HalfPiLo == <<PiLo[1], IF PiLo[1] = 0 THEN 0 ELSE PiLo[2] - 1>>

TwoPi == <<Pi[1], Pi[2] + 1>>

\* The integer nearest to x.
FRoundInt(x) ==
    IF x[2] >= 0 THEN x[1] * 2^(x[2])
    ELSE IF -x[2] > Prec + 1 THEN 0
    ELSE ISign(x[1]) * ((IAbs(x[1]) + 2^(-x[2] - 1)) \div 2^(-x[2]))

\* x - k * pi / 2
ReduceBy(x, k) ==
    FSub(FSub(x, FMul(FromInt(k), HalfPi)), FMul(FromInt(k), HalfPiLo))

\* sin(r) for |r| <= pi / 4
SinSeries(r) ==
    FSub(r, FMul(FMul(r, FMul(r, r)),
                 FSub(FromRatio(1, 6),
                      FMul(FMul(r, r),
                           FSub(FromRatio(1, 120),
                                FMul(FMul(r, r), FromRatio(1, 5040)))))))

\* cos(r) for |r| <= pi / 4
CosSeries(r) ==
    FSub(FromInt(1),
         FMul(FMul(r, r),
              FSub(FromRatio(1, 2),
                   FMul(FMul(r, r),
                        FSub(FromRatio(1, 24),
                             FMul(FMul(r, r),
                                  FSub(FromRatio(1, 720),
                                       FMul(FMul(r, r),
                                            FromRatio(1, 40320)))))))))

\* -s if neg, else s
Signed(neg, s) == IF neg THEN FNeg(s) ELSE s

\* The sine of x + turn * pi / 2, k the multiple of pi / 2 nearest to x: the
\* series of the remainder x - k * pi / 2 in the quadrant k + turn.
SinAt(x, k, turn) ==
    Signed((k + turn) % 4 >= 2,
           IF (k + turn) % 2 = 0 THEN SinSeries(ReduceBy(x, k))
           ELSE CosSeries(ReduceBy(x, k)))

\* math.sin(x), np.sin(x)
Sin(x) == SinAt(x, FRoundInt(FDiv(x, HalfPi)), 0)

\* math.cos(x), np.cos(x): the sine a quarter turn on
Cos(x) == SinAt(x, FRoundInt(FDiv(x, HalfPi)), 1)

\* math.tan(x)
Tan(x) == FDiv(Sin(x), Cos(x))

\* atan(y) for |y| <= tan(pi / 8)
AtanSeries(y) ==
    FSub(y, FMul(FMul(y, FMul(y, y)),
                 FSub(FromRatio(1, 3),
                      FMul(FMul(y, y),
                           FSub(FromRatio(1, 5),
                                FMul(FMul(y, y),
                                     FSub(FromRatio(1, 7),
                                          FMul(FMul(y, y),
                                               FromRatio(1, 9)))))))))

\* atan(x) for 0 <= x <= 1
AtanUnit(x) ==
    IF FLe(x, FromRatio(53, 128)) THEN AtanSeries(x)
    ELSE FAdd(<<Pi[1], Pi[2] - 2>>,
              AtanSeries(FDiv(FSub(x, FromInt(1)), FAdd(x, FromInt(1)))))

\* atan(x) for x >= 0
AtanPos(x) ==
    IF FLe(x, FromInt(1)) THEN AtanUnit(x)
    ELSE FAdd(FSub(HalfPi, AtanUnit(FDiv(FromInt(1), x))), HalfPiLo)

\* The angle at of the first quadrant, placed in the quadrant of a point
\* whose coordinates have the signs sx and sy.
Atan2Placed(sx, sy, at) ==
    CASE sx > 0 -> IF sy >= 0 THEN at ELSE FNeg(at)
      [] sx = 0 -> IF sy > 0 THEN HalfPi
                   ELSE IF sy < 0 THEN FNeg(HalfPi) ELSE Zero
      [] sx < 0 -> IF sy >= 0 THEN FAdd(FSub(Pi, at), PiLo)
                   ELSE FSub(FSub(at, Pi), PiLo)

\* math.atan2(y, x), zeros taken as +0.0
Atan2(y, x) ==
    Atan2Placed(FSgn(x), FSgn(y), AtanPos(FDiv(FAbs(y), FAbs(x))))

\* math.acos(x), -1 <= x <= 1
Acos(x) == Atan2(FSqrt(FSub(FromInt(1), FMul(x, x))), x)

\* x % y for y > 0 (Python's %, np.mod): the remainder with the sign of y.
FMod(x, y) ==
    IF FLt(FAbs(x), y)
    THEN IF FSgn(x) >= 0 THEN x ELSE FAdd(x, y)
    ELSE LET e == IF x[2] < y[2] THEN x[2] ELSE y[2]
             X == x[1] * 2^(x[2] - e)
             Y == y[1] * 2^(y[2] - e)
         IN  Round(X % Y, e)

\* ------------------------------------------------------------------------
\* model/body.py, model/system.py: bodies and the system builders
\* ------------------------------------------------------------------------

\* Body.__init__: the state vectors of a new body; acc starts at zero.
Body(mass, pos, vel) ==
    [mass |-> mass, pos |-> pos, vel |-> vel, acc |-> ZeroVec, trail |-> <<>>]

\* Body.add_trail_point(decimation): the position is appended when the length
\* of the trail is a multiple of decimation.
add_trail_point(b, decimation) ==
    IF Len(b.trail) % decimation = 0
    THEN [b EXCEPT !.trail = Append(@, b.pos)]
    ELSE b

\* SolarSystem.add_trail_points(decimation)
add_trail_points(bs, decimation) ==
    [k \in 1..Len(bs) |-> add_trail_point(bs[k], decimation)]

RECURSIVE SumMass(_, _)
SumMass(bs, k) == IF k = 0 THEN Zero ELSE FAdd(SumMass(bs, k - 1), bs[k].mass)

\* SolarSystem.get_total_mass
get_total_mass(bs) == SumMass(bs, Len(bs))

RECURSIVE SumWeighted(_, _, _)
SumWeighted(bs, fld, k) ==
    IF k = 0 THEN ZeroVec
    ELSE VAdd(SumWeighted(bs, fld, k - 1),
              VScale(bs[k].mass, IF fld = "pos" THEN bs[k].pos ELSE bs[k].vel))

VDivS(v, s) == <<FDiv(v[1], s), FDiv(v[2], s), FDiv(v[3], s)>>

\* SolarSystem.get_center_of_mass: <<COM position, COM velocity>>
get_center_of_mass(bs) ==
    LET total_mass == get_total_mass(bs)
    IN  IF total_mass = Zero THEN <<ZeroVec, ZeroVec>>
        ELSE << VDivS(SumWeighted(bs, "pos", Len(bs)), total_mass),
                VDivS(SumWeighted(bs, "vel", Len(bs)), total_mass) >>

\* Mutant of move_to_barycenter: the positions are shifted and the velocities
\* are left as they were.
move_to_barycenter_positions(bs) ==
    LET com == get_center_of_mass(bs)
    IN  [k \in 1..Len(bs) |-> [bs[k] EXCEPT !.pos = VSub(@, com[1])]]

\* SolarSystem.move_to_barycenter
move_to_barycenter(bs) ==
    LET com == get_center_of_mass(bs)
    IN  [k \in 1..Len(bs) |->
            [bs[k] EXCEPT !.pos = VSub(@, com[1]), !.vel = VSub(@, com[2])]]

\* create_test_system: Sun at the origin, Earth on a circular orbit at 1 AU.
create_test_system ==
    LET sun == Body(FromInt(1), ZeroVec, ZeroVec)
        earth_distance == FromInt(1)
        earth_speed == FSqrt(FDiv(FMul(G, sun.mass), earth_distance))
    IN  << sun,
           Body(FromRatio(3003, 1000000000),
                <<earth_distance, Zero, Zero>>,
                <<Zero, earth_speed, Zero>>) >>

\* Mutant of load_solar_system: the Sun is added after the planets.
load_solar_system_sun_last(sun_mass, planets) ==
    move_to_barycenter(planets \o <<Body(sun_mass, ZeroVec, ZeroVec)>>)

\* load_solar_system: the Sun at rest at the origin, then one body per planet
\* record (its state as elements_to_state returned it), then the move to the
\* barycentre.
load_solar_system(sun_mass, planets) ==
    move_to_barycenter(<<Body(sun_mass, ZeroVec, ZeroVec)>> \o planets)

\* ------------------------------------------------------------------------
\* physics/nbody.py, physics/pn1.py: what one loop iteration does
\* ------------------------------------------------------------------------

Half == FromRatio(1, 2)

\* Mutant of KickBody: the acceleration is cleared once it has been used.
KickBodyClears(b, dt) ==
    [b EXCEPT !.vel = VAdd(@, VScale(dt, VScale(Half, b.acc))), !.acc = ZeroVec]

\* b.vel += 0.5 * b.acc * dt
KickBody(b, dt) == [b EXCEPT !.vel = VAdd(@, VScale(dt, VScale(Half, b.acc)))]

\* b.pos += b.vel * dt
DriftBody(b, dt) == [b EXCEPT !.pos = VAdd(@, VScale(dt, b.vel))]

\* Mutant of ResetBody: the reset is left out, so the accelerations accumulate
\* across calls.
ResetBodyKeeps(b) == b

\* b.acc[:] = 0.0
ResetBody(b) == [b EXCEPT !.acc = ZeroVec]

\* inv_r3 of the pair whose separation vector is rij
InvR3(rij) ==
    LET dist2 == FAdd(Dot(rij, rij), FMul(EPS_ACCEL, EPS_ACCEL))
        dist  == FSqrt(dist2)
    IN  FDiv(FromInt(1), FMul(dist2, dist))

\* Mutant of PairAj: the mass of the wrong body of the pair.
PairAjOwnMass(bi, bj) ==
    LET rij == VSub(bj.pos, bi.pos)
    IN  VScale(InvR3(rij), VScale(FMul(FNeg(G), bj.mass), rij))

\* The pull on body i without the mass of body j.
PairAiMassless(bi, bj) ==
    LET rij == VSub(bj.pos, bi.pos)
    IN  VScale(InvR3(rij), VScale(G, rij))

\* ai = G * bodies[j].mass * rij * inv_r3
PairAi(bi, bj) ==
    LET rij == VSub(bj.pos, bi.pos)
    IN  VScale(InvR3(rij), VScale(FMul(G, bj.mass), rij))

\* Mutant of PairAj: the minus sign is lost, so both bodies of the pair are
\* pulled the same way.
PairAjUnsigned(bi, bj) ==
    LET rij == VSub(bj.pos, bi.pos)
    IN  VScale(InvR3(rij), VScale(FMul(G, bi.mass), rij))

\* aj = -G * bodies[i].mass * rij * inv_r3
PairAj(bi, bj) ==
    LET rij == VSub(bj.pos, bi.pos)
    IN  VScale(InvR3(rij), VScale(FMul(FNeg(G), bi.mass), rij))

\* A pair loop that gives body i its pull and forgets body j.
PairUpdateOneSided(bs, i, j) ==
    [bs EXCEPT ![i].acc = VAdd(@, PairAi(bs[i], bs[j]))]

\* The body of the pair loop for the pair (i, j), i < j.
PairUpdate(bs, i, j) ==
    [bs EXCEPT ![i].acc = VAdd(@, PairAi(bs[i], bs[j])),
               ![j].acc = VAdd(@, PairAj(bs[i], bs[j]))]

\* The pair the nested loops visit after (i, j); j > n once the loops are over.
NextPair(i, j, n) == IF j < n THEN <<i, j + 1>> ELSE <<i + 1, i + 2>>

\* correction = factor * ((4*G*M/r - v2) * r_vec + 4*rv * v_vec)
PnCorrection(b, sun, M) ==
    LET r_vec  == VSub(b.pos, sun.pos)
        v_vec  == VSub(b.vel, sun.vel)
        r2     == FAdd(Dot(r_vec, r_vec), FMul(EPS_ACCEL, EPS_ACCEL))
        r      == FSqrt(r2)
        v2     == Dot(v_vec, v_vec)
        rv     == Dot(r_vec, v_vec)
        factor == FDiv(FMul(G, M),
                       FMul(FMul(C_AU_PER_YR, C_AU_PER_YR), FMul(FMul(r, r), r)))
    IN  VScale(factor,
               VAdd(VScale(FSub(FDiv(FMul(FMul(FromInt(4), G), M), r), v2), r_vec),
                    VScale(FMul(FromInt(4), rv), v_vec)))

\* Mutant of PnBody: the correction replaces the acceleration.
PnBodyReplaces(b, sun, M) == [b EXCEPT !.acc = PnCorrection(b, sun, M)]

\* b.acc += correction
PnBody(b, sun, M) == [b EXCEPT !.acc = VAdd(@, PnCorrection(b, sun, M))]

\* Mutant of PhaseAfter: the accelerations are recomputed before the drift, at
\* the old positions.
PhaseAfterForceFirst(ph, fn, rel) ==
    CASE ph = "kick1" -> "reset"
      [] ph = "reset" -> "pairs"
      [] ph = "pairs" -> IF fn = "acc" THEN "return"
                         ELSE IF rel THEN "pn_enter" ELSE "drift"
      [] ph = "pn"    -> IF fn = "pn" THEN "return" ELSE "drift"
      [] ph = "drift" -> "kick2"
      [] ph = "kick2" -> "return"

\* Mutant of PhaseAfter: the correction is computed after the second half
\* kick, from the velocities of the end of the step.
PhaseAfterPnLast(ph, fn, rel) ==
    CASE ph = "kick1" -> "drift"
      [] ph = "drift" -> "reset"
      [] ph = "reset" -> "pairs"
      [] ph = "pairs" -> IF fn = "acc" THEN "return" ELSE "kick2"
      [] ph = "kick2" -> IF rel THEN "pn_enter" ELSE "return"
      [] ph = "pn"    -> "return"

\* Mutant of PhaseAfter: the correction runs whatever the flag says.
PhaseAfterAlwaysPn(ph, fn, rel) ==
    CASE ph = "kick1" -> "drift"
      [] ph = "drift" -> "reset"
      [] ph = "reset" -> "pairs"
      [] ph = "pairs" -> IF fn = "acc" THEN "return" ELSE "pn_enter"
      [] ph = "pn"    -> IF fn = "pn" THEN "return" ELSE "kick2"
      [] ph = "kick2" -> "return"

\* The control flow of step_system, compute_accelerations and
\* compute_pn_accelerations: the phase that follows phase ph in a call of fn.
PhaseAfter(ph, fn, rel) ==
    CASE ph = "kick1" -> "drift"
      [] ph = "drift" -> "reset"
      [] ph = "reset" -> "pairs"
      [] ph = "pairs" -> IF fn = "acc" THEN "return"
                         ELSE IF rel THEN "pn_enter" ELSE "kick2"
      [] ph = "pn"    -> IF fn = "pn" THEN "return" ELSE "kick2"
      [] ph = "kick2" -> "return"

\* ------------------------------------------------------------------------
\* physics/diagnostics.py
\* ------------------------------------------------------------------------

\* np.linalg.norm(v)
Norm(v) == FSqrt(Dot(v, v))

RECURSIVE KineticSum(_, _)
KineticSum(bs, k) ==
    IF k = 0 THEN Zero
    ELSE FAdd(KineticSum(bs, k - 1),
              FMul(FMul(Half, bs[k].mass), Dot(bs[k].vel, bs[k].vel)))

\* E_pot after the pair loop has done the pairs before (i, j) and is at (i, j).
RECURSIVE PotentialFrom(_, _, _, _)
PotentialFrom(bs, i, j, e_pot) ==
    IF j > Len(bs) THEN e_pot
    ELSE LET dist == Norm(VSub(bs[j].pos, bs[i].pos))
             nxt  == NextPair(i, j, Len(bs))
             e    == IF FLt(Zero, dist)
                     THEN FSub(e_pot, FDiv(FMul(FMul(G, bs[i].mass), bs[j].mass), dist))
                     ELSE e_pot
         IN  PotentialFrom(bs, nxt[1], nxt[2], e)

\* The pair loop run over i # j: every pair is counted in both orders.
total_energy_both_orders(bs) ==
    FAdd(KineticSum(bs, Len(bs)), FMul(FromInt(2), PotentialFrom(bs, 1, 2, Zero)))

\* total_energy(bodies)
total_energy(bs) == FAdd(KineticSum(bs, Len(bs)), PotentialFrom(bs, 1, 2, Zero))

RECURSIVE AngMomSum(_, _)
AngMomSum(bs, k) ==
    IF k = 0 THEN ZeroVec
    ELSE VAdd(AngMomSum(bs, k - 1), VScale(bs[k].mass, Cross(bs[k].pos, bs[k].vel)))

\* total_angular_momentum(bodies)
total_angular_momentum(bs) == AngMomSum(bs, Len(bs))

\* ------------------------------------------------------------------------
\* physics/elements.py
\* ------------------------------------------------------------------------

\* Values a float variable can hold besides numbers.  (A number <<m, e>> has
\* e = 0 when m = 0, so these stand apart from every number.)
None == <<0, 1>>

Inf == <<0, 2>>

NaN == <<0, 3>>
\* -inf
NegInf == <<0, 4>>

\* The literal 1e-10: the tolerance of solve_kepler, the eccentricity
\* threshold of state_to_elements.
Tiny == FMul(FromRatio(1, 100000), FromRatio(1, 100000))

\* x**3
Cube(x) == FMul(FMul(x, x), x)

\* Iterations of the Newton loop of elements_to_state.
NewtonSteps == 10

\* max_iter of solve_kepler
max_iter == 50

\* kepler(E, M, e) = E - e*sin(E) - M
kepler(E, M, e) == FSub(FSub(E, FMul(e, Sin(E))), M)

\* kepler_prime(E, e) = 1 - e*cos(E)
kepler_prime(E, e) == FSub(FromInt(1), FMul(e, Cos(E)))

\* kepler(E, M, e) / kepler_prime(E, e), what a pass takes off E
NewtonCorrection(E, M, e) == FDiv(kepler(E, M, e), kepler_prime(E, e))

\* E -= kepler(E, M, e) / kepler_prime(E, e)
NewtonStep(E, M, e) == FSub(E, NewtonCorrection(E, M, e))

\* The rotation matrix R of elements_to_state, by rows, from the cosines and
\* sines of Omega, i and omega.
RotationOf(cosO, sinO, cosi, sini, cosw, sinw) ==
    << << FSub(FMul(cosO, cosw), FMul(FMul(sinO, sinw), cosi)),
          FSub(FMul(FNeg(cosO), sinw), FMul(FMul(sinO, cosw), cosi)),
          FMul(sinO, sini) >>,
       << FAdd(FMul(sinO, cosw), FMul(FMul(cosO, sinw), cosi)),
          FAdd(FMul(FNeg(sinO), sinw), FMul(FMul(cosO, cosw), cosi)),
          FMul(FNeg(cosO), sini) >>,
       << FMul(sinw, sini), FMul(cosw, sini), cosi >> >>

\* The rotation matrix R of elements_to_state.
Rotation(i, Omega, omega) ==
    RotationOf(Cos(Omega), Sin(Omega), Cos(i), Sin(i), Cos(omega), Sin(omega))

\* R @ u
MatVec(R, u) == <<Dot(R[1], u), Dot(R[2], u), Dot(R[3], u)>>

\* elements_to_state: R @ pos_pf and R @ vel_pf, the perifocal vectors built
\* from a, e, root = sqrt(1 - e**2), the mean motion n, cos E and sin E.
StateBuilt(a, e, root, n, cosE, sinE, R) ==
    << MatVec(R, << FMul(a, FSub(cosE, e)),
                    FMul(FMul(a, root), sinE),
                    Zero >>),
       MatVec(R, << FDiv(FMul(FMul(FNeg(a), n), sinE),
                         FSub(FromInt(1), FMul(e, cosE))),
                    FDiv(FMul(FMul(FMul(a, n), root), cosE),
                         FSub(FromInt(1), FMul(e, cosE))),
                    Zero >>) >>

\* elements_to_state after the Newton loop: the state <<r, v>> built from the
\* elements el, mu and the eccentric anomaly E the loop left.
StateFromE(el, mu, E) ==
    StateBuilt(el.a, el.e,
               FSqrt(FSub(FromInt(1), FMul(el.e, el.e))),
               FSqrt(FDiv(mu, Cube(el.a))),
               Cos(E), Sin(E),
               Rotation(el.i, el.Omega, el.omega))

\* What state_to_elements does when the angular momentum is zero: the
\* divisions by hmag give nan, and nan goes through acos and atan2; the
\* square root of (1+e)/(1-e) raises when rounding has left e above 1.
NanElements(a, e) ==
    IF FLt(FromInt(1), e)
    THEN [a |-> a, e |-> e, i |-> NaN, Omega |-> Zero, omega |-> Zero,
          M |-> None, raised |-> "ValueError"]
    ELSE [a |-> a, e |-> e, i |-> NaN, Omega |-> Zero, omega |-> Zero,
          M |-> NaN, raised |-> "none"]

\* Mutant of FallbackAnomaly: a circular orbit is given the anomaly zero.
FallbackAnomalyZero(r) == Zero

\* state_to_elements, e <= 1e-10: nu = math.atan2(r[1], r[0])
FallbackAnomaly(r) == Atan2(r[2], r[1])

\* M = E - e*sin(E)
MeanAnomaly(E, e) == FSub(E, FMul(e, Sin(E)))

\* state_to_elements from nu on: E, M and the returned tuple
ElementAnomalies(a, e, i, Omega, omega, nu) ==
    IF FLt(FromInt(1), e)
    THEN [a |-> a, e |-> e, i |-> i, Omega |-> Omega, omega |-> omega,
          M |-> None, raised |-> "ValueError"]
    ELSE [a |-> a, e |-> e, i |-> i, Omega |-> Omega, omega |-> omega,
          M |-> MeanAnomaly(IF e = FromInt(1) THEN Zero
                            ELSE FMul(FromInt(2),
                                      Atan2(Tan(FMul(nu, Half)),
                                            FSqrt(FDiv(FAdd(FromInt(1), e),
                                                       FSub(FromInt(1), e))))),
                            e),
          raised |-> "none"]

\* state_to_elements from the vectors on: i, Omega, omega, nu
ElementAngles(r, rmag, h, hmag, N, Nmag, e_vec, e, a) ==
    IF hmag = Zero THEN NanElements(a, e)
    ELSE ElementAnomalies(a, e,
             Acos(FDiv(h[3], hmag)),
             IF Nmag # Zero THEN Atan2(N[2], N[1]) ELSE Zero,
             IF Nmag # Zero /\ FLt(Tiny, e)
             THEN Atan2(FDiv(Dot(Cross(N, e_vec), h), hmag),
                        FDiv(Dot(N, e_vec), Nmag))
             ELSE Zero,
             IF FLt(Tiny, e)
             THEN Atan2(FDiv(Dot(Cross(e_vec, r), h), hmag),
                        FDiv(Dot(e_vec, r), FMul(e, rmag)))
             ELSE FallbackAnomaly(r))

\* state_to_elements from rmag, vmag**2 and h on: N, e_vec, e, a
ElementVectors(r, mu, rmag, v2, h, e_vec) ==
    ElementAngles(r, rmag, h, Norm(h),
                  Cross(IVec(0, 0, 1), h), Norm(Cross(IVec(0, 0, 1), h)),
                  e_vec, Norm(e_vec),
                  IF FSub(FDiv(FromInt(2), rmag), FDiv(v2, mu)) = Zero THEN Inf
                  ELSE FDiv(FromInt(1),
                            FSub(FDiv(FromInt(2), rmag), FDiv(v2, mu))))

\* state_to_elements(r, v, mu), r # 0
state_to_elements(r, v, mu) ==
    ElementVectors(r, mu, Norm(r), FMul(Norm(v), Norm(v)), Cross(r, v),
                   VScale(FDiv(FromInt(1), mu),
                          VSub(VScale(FSub(FMul(Norm(v), Norm(v)),
                                           FDiv(mu, Norm(r))), r),
                               VScale(Dot(r, v), v))))

\* solve_kepler: M = np.mod(M, 2*math.pi)
WrapM(M) == FMod(M, TwoPi)

\* solve_kepler: the starting value of E
SolveStart(M, e) == IF FLt(e, FromRatio(8, 10)) THEN WrapM(M) ELSE Pi

\* solve_kepler: dE = -f/fprime
SolveDelta(E, M, e) ==
    FDiv(FNeg(FSub(FSub(E, FMul(e, Sin(E))), M)), kepler_prime(E, e))

\* ------------------------------------------------------------------------
\* physics/osculating.py
\* ------------------------------------------------------------------------

\* _EPS = 1e-12
EPS == FMul(FromRatio(1, 1000000), FromRatio(1, 1000000))

\* _SMALL = 1e-8
SMALL == FMul(FromRatio(1, 10000), FromRatio(1, 10000))

\* 1.0 - 1e-8, the bound on e of an elliptic orbit
Elliptic == FSub(FromInt(1), SMALL)

\* _wrap_to_2pi(angle)
wrap_to_2pi(angle) ==
    LET a == FMod(angle, TwoPi)
    IN  IF FLt(a, Zero) THEN FAdd(a, TwoPi) ELSE a

\* max(-1.0, min(1.0, x))
Clamp(x) ==
    LET lo == IF FLt(x, FromInt(1)) THEN x ELSE FromInt(1)
    IN  IF FLt(FromInt(-1), lo) THEN lo ELSE FromInt(-1)

\* Mutant of SemiMajorAxis: the factor two of the vis-viva relation is left out.
SemiMajorAxisNoHalf(mu, specific_energy) ==
    IF FLt(FAbs(specific_energy), EPS) THEN Inf
    ELSE FDiv(FNeg(mu), specific_energy)

\* osculating_elements: a = inf if abs(specific_energy) < _EPS, else
\* -mu / (2.0 * specific_energy)
SemiMajorAxis(mu, specific_energy) ==
    IF FLt(FAbs(specific_energy), EPS) THEN Inf
    ELSE FDiv(FNeg(mu), FMul(FromInt(2), specific_energy))

\* osculating_elements from nu on: E, M and the returned dictionary
OscReport(mu, e, a, i, Omega, omega, nu, specific_energy, h_vec, h) ==
    [a |-> a, e |-> e, i |-> i, Omega |-> Omega, omega |-> omega,
     nu |-> nu,
     M |-> IF FLt(e, Elliptic)
           THEN wrap_to_2pi(MeanAnomaly(
                    FMul(FromInt(2),
                         Atan2(FMul(FSqrt(FSub(FromInt(1), e)),
                                    Sin(FMul(nu, Half))),
                               FMul(FSqrt(FAdd(FromInt(1), e)),
                                    Cos(FMul(nu, Half))))),
                    e))
           ELSE None,
     specific_energy |-> specific_energy, h_vec |-> h_vec, h |-> h,
     period |-> IF FLt(e, Elliptic) /\ a # Inf
                THEN FMul(FMul(FromInt(2), Pi),
                          FSqrt(FAbs(FDiv(Cube(a), mu))))
                ELSE None]

\* atan2 of a sine and a clamped cosine, wrapped
WrappedAngle(sin_x, cos_x) == wrap_to_2pi(Atan2(sin_x, Clamp(cos_x)))

\* osculating_elements from the norms on: i, Omega, omega, nu
OscAngles(r, mu, rmag, h_vec, h, N_vec, N, e_vec, e, a, specific_energy) ==
    OscReport(mu, e, a,
        IF FLt(SMALL, h) THEN Acos(Clamp(FDiv(h_vec[3], h))) ELSE Zero,
        IF FLt(SMALL, N) THEN wrap_to_2pi(Atan2(N_vec[2], N_vec[1]))
        ELSE Zero,
        IF FLt(SMALL, e) /\ FLt(SMALL, N)
        THEN WrappedAngle(FDiv(Dot(Cross(N_vec, e_vec), h_vec),
                               FMul(FMul(N, e), h)),
                          FDiv(Dot(N_vec, e_vec), FMul(N, e)))
        ELSE IF FLt(SMALL, e)
        THEN WrappedAngle(FDiv(e_vec[2], e), FDiv(e_vec[1], e))
        ELSE Zero,
        IF FLt(SMALL, e)
        THEN WrappedAngle(IF FLt(SMALL, h)
                          THEN FDiv(Dot(Cross(e_vec, r), h_vec),
                                    FMul(FMul(e, rmag), h))
                          ELSE Zero,
                          FDiv(Dot(e_vec, r), FMul(e, rmag)))
        ELSE IF FLt(SMALL, N)
        THEN WrappedAngle(IF FLt(SMALL, h)
                          THEN FDiv(Dot(Cross(VDivS(N_vec, N), r), h_vec),
                                    FMul(rmag, h))
                          ELSE Zero,
                          FDiv(Dot(VDivS(N_vec, N), r), rmag))
        ELSE wrap_to_2pi(Atan2(r[2], r[1])),
        specific_energy, h_vec, h)

\* osculating_elements from rmag, vmag**2 and h_vec on: h, N_vec, N, e, a
OscVectors(r, mu, rmag, h_vec, e_vec, specific_energy) ==
    OscAngles(r, mu, rmag, h_vec, Norm(h_vec),
              Cross(IVec(0, 0, 1), h_vec), Norm(Cross(IVec(0, 0, 1), h_vec)),
              e_vec, Norm(e_vec),
              SemiMajorAxis(mu, specific_energy), specific_energy)

\* osculating_elements(r, v, mu), r # 0
osculating_elements(r, v, mu) ==
    OscVectors(r, mu, Norm(r), Cross(r, v),
               VDivS(VSub(VScale(FSub(FMul(Norm(v), Norm(v)),
                                      FDiv(mu, Norm(r))), r),
                          VScale(Dot(r, v), v)), mu),
               FSub(FMul(Half, FMul(Norm(v), Norm(v))), FDiv(mu, Norm(r))))

\* ------------------------------------------------------------------------
\* State
\* ------------------------------------------------------------------------

\* Steps a run makes at most.
MaxCalls == 3

\* The timesteps the driving loop passes (dt = self.dt * self.time_scale).
DtSet == {DT, FNeg(DT)}

Threads == {1, 2}

MainThread == CHOOSE t \in Threads : \A u \in Threads : t <= u

VARIABLES
    bodies,   \* the body collection: a sequence of [mass, pos, vel, acc]
    frames,   \* per thread: the call it is in and its position there
    ret,      \* how the last call ended: "none", "ok" or "IndexError"
    report,   \* what the diagnostics last returned to the driving loop
    calls,    \* history: the calls made so far, <<fn, dt, rel>> each
    init0,    \* history: the collection as the builder delivered it
    acc3,     \* history: the accelerations phase (3) of the last step left
    conv,     \* the element converter: the call it is in, or the last one made
    iter,     \* the index of the Newton loop the converter is in, -1 outside one
    ends      \* history: one record per call that has returned

vars == <<bodies, frames, ret, report, calls, init0, acc3, conv, iter, ends>>

IdleFrame ==
    [pc |-> "idle", fn |-> "none", dt |-> Zero, rel |-> FALSE,
     idx |-> 1, i |-> 1, j |-> 2, M |-> Zero,
     pre |-> <<>>, log |-> <<>>, after |-> "none", alone |-> TRUE]

AllIdle == \A t \in Threads : frames[t].pc = "idle"

\* No conversion has been asked for yet.
IdleConv ==
    [pc |-> "idle", fn |-> "none", arg |-> <<>>, E |-> Zero, dE |-> Zero,
     n |-> 0, out |-> <<>>, from |-> <<>>]

AccOf(bs) == [k \in 1..Len(bs) |-> bs[k].acc]

\* The planets load_solar_system is given, as elements_to_state placed them.
PlanetB == Body(FromRatio(1, 1000), IVec(0, 2, 1), IVec(-3, 0, 1))

PlanetC == Body(FromRatio(3, 10000), IVec(-4, 1, 0), IVec(0, -3, 1))

PlanetD == Body(FromRatio(1, 1000), <<FromRatio(1, 64), Zero, Zero>>, IVec(0, 40000, 0))

\* The collections the system builders deliver.
BuilderSystems ==
    { create_test_system,
      load_solar_system(FromInt(1), <<>>),
      load_solar_system(FromInt(1), <<PlanetB>>),
      load_solar_system(FromInt(2), <<PlanetB, PlanetC>>),
      load_solar_system(FromInt(1000000), <<PlanetD>>) }

Init ==
    /\ bodies \in BuilderSystems
    /\ frames = [t \in Threads |-> IdleFrame]
    /\ ret = "none"
    /\ report = <<"none">>
    /\ calls = <<>>
    /\ init0 = bodies
    /\ acc3 = <<>>
    /\ conv = IdleConv
    /\ iter = -1
    /\ ends = <<>>

\* ------------------------------------------------------------------------
\* Actions
\* ------------------------------------------------------------------------

\* What is kept of the call thread t is in when it returns or raises: the
\* collection as it was at the call and as it is now, and whether no other
\* call ran at any time during this one.
Ended(t) ==
    [fn |-> frames[t].fn, dt |-> frames[t].dt, rel |-> frames[t].rel,
     pre |-> frames[t].pre, post |-> bodies, alone |-> frames[t].alone]

\* Entering phase ph of the call thread t is in; "return" ends the call.
Goto(t, ph) ==
    /\ frames' = [frames EXCEPT ![t] =
                     IF ph = "return" THEN IdleFrame
                     ELSE [@ EXCEPT !.pc = ph, !.idx = 1, !.i = 1, !.j = 2]]
    /\ ret' = IF ph = "return" THEN "ok" ELSE ret
    /\ acc3' = IF ph = "kick2" THEN AccOf(bodies) ELSE acc3
    /\ ends' = IF ph = "return" THEN Append(ends, Ended(t)) ELSE ends

\* The driving loop calls step_system(bodies, dt, use_relativity).
StepCall(t, dt, rel) ==
    /\ t = MainThread
    /\ AllIdle
    /\ Len(calls) < MaxCalls
    /\ frames' = [frames EXCEPT ![t] =
                     [IdleFrame EXCEPT !.pc = "kick1", !.fn = "step", !.dt = dt,
                                       !.rel = rel, !.pre = bodies,
                                       !.after = report[1]]]
    /\ ret' = "none"
    /\ report' = <<"none">>
    /\ calls' = Append(calls, <<"step", dt, rel>>)
    /\ UNCHANGED <<bodies, init0, conv, iter, acc3, ends>>

\* total_energy with rij taken in place: bodies[j].pos -= bodies[i].pos
\* moves the last body of the collection.
EnergyCallInPlace(t) ==
    /\ t = MainThread
    /\ AllIdle
    /\ report' = <<"energy", total_energy(bodies)>>
    /\ bodies' = [k \in 1..Len(bodies) |->
                     IF k > 1 /\ k = Len(bodies)
                     THEN [bodies[k] EXCEPT !.pos = VSub(@, bodies[1].pos)]
                     ELSE bodies[k]]
    /\ UNCHANGED <<frames, ret, calls, init0, conv, iter, acc3, ends>>

\* The driving loop calls total_energy(bodies) between two steps.
EnergyCall(t) ==
    /\ t = MainThread
    /\ AllIdle
    /\ report' = <<"energy", total_energy(bodies)>>
    /\ UNCHANGED <<bodies, frames, ret, calls, init0, conv, iter, acc3, ends>>

\* The driving loop calls total_angular_momentum(bodies) between two steps.
AngMomCall(t) ==
    /\ t = MainThread
    /\ AllIdle
    /\ report' = <<"H_vec", total_angular_momentum(bodies)>>
    /\ UNCHANGED <<bodies, frames, ret, calls, init0, conv, iter, acc3, ends>>

\* for b in bodies: b.vel += 0.5 * b.acc * dt        (phase 1)
Kick1Iter(t) ==
    LET f == frames[t]
    IN  /\ f.pc = "kick1"
        /\ f.idx <= Len(bodies)
        /\ bodies' = [bodies EXCEPT ![f.idx] = KickBody(@, f.dt)]
        /\ frames' = [frames EXCEPT ![t].idx = @ + 1,
                                    ![t].log = Append(@, <<"kick1", f.idx>>)]
        /\ UNCHANGED <<ret, report, calls, init0, conv, iter, acc3, ends>>

Kick1Exit(t) ==
    LET f == frames[t]
    IN  /\ f.pc = "kick1"
        /\ f.idx > Len(bodies)
        /\ Goto(t, PhaseAfter("kick1", f.fn, f.rel))
        /\ UNCHANGED <<bodies, report, calls, init0, conv, iter>>

\* A drift that keeps count of the calls made so far and, from the third
\* call on, moves every body twice as far.
DriftIterRemembers(t) ==
    LET f  == frames[t]
        dt == IF Len(calls) >= 3 THEN FMul(FromInt(2), f.dt) ELSE f.dt
    IN  /\ f.pc = "drift"
        /\ f.idx <= Len(bodies)
        /\ bodies' = [bodies EXCEPT ![f.idx] = DriftBody(@, dt)]
        /\ frames' = [frames EXCEPT ![t].idx = @ + 1,
                                    ![t].log = Append(@, <<"drift", f.idx>>)]
        /\ UNCHANGED <<ret, report, calls, init0, conv, iter, acc3, ends>>

\* for b in bodies: b.pos += b.vel * dt              (phase 2)
DriftIter(t) ==
    LET f == frames[t]
    IN  /\ f.pc = "drift"
        /\ f.idx <= Len(bodies)
        /\ bodies' = [bodies EXCEPT ![f.idx] = DriftBody(@, f.dt)]
        /\ frames' = [frames EXCEPT ![t].idx = @ + 1,
                                    ![t].log = Append(@, <<"drift", f.idx>>)]
        /\ UNCHANGED <<ret, report, calls, init0, conv, iter, acc3, ends>>

DriftExit(t) ==
    LET f == frames[t]
    IN  /\ f.pc = "drift"
        /\ f.idx > Len(bodies)
        /\ Goto(t, PhaseAfter("drift", f.fn, f.rel))
        /\ UNCHANGED <<bodies, report, calls, init0, conv, iter>>

\* compute_accelerations: for b in bodies: b.acc[:] = 0.0
ResetIter(t) ==
    LET f == frames[t]
    IN  /\ f.pc = "reset"
        /\ f.idx <= Len(bodies)
        /\ bodies' = [bodies EXCEPT ![f.idx] = ResetBody(@)]
        /\ frames' = [frames EXCEPT ![t].idx = @ + 1,
                                    ![t].log = Append(@, <<"reset", f.idx>>)]
        /\ UNCHANGED <<ret, report, calls, init0, conv, iter, acc3, ends>>

ResetExit(t) ==
    LET f == frames[t]
    IN  /\ f.pc = "reset"
        /\ f.idx > Len(bodies)
        /\ Goto(t, PhaseAfter("reset", f.fn, f.rel))
        /\ UNCHANGED <<bodies, report, calls, init0, conv, iter>>

\* compute_accelerations: for i in range(n): for j in range(i + 1, n): ...
PairIter(t) ==
    LET f == frames[t]
        np == NextPair(f.i, f.j, Len(bodies))
    IN  /\ f.pc = "pairs"
        /\ f.j <= Len(bodies)
        /\ bodies' = PairUpdate(bodies, f.i, f.j)
        /\ frames' = [frames EXCEPT ![t].i = np[1], ![t].j = np[2],
                                    ![t].log = Append(@, <<"pair", f.i, f.j>>)]
        /\ UNCHANGED <<ret, report, calls, init0, conv, iter, acc3, ends>>

PairsExit(t) ==
    LET f == frames[t]
    IN  /\ f.pc = "pairs"
        /\ f.j > Len(bodies)
        /\ Goto(t, PhaseAfter("pairs", f.fn, f.rel))
        /\ UNCHANGED <<bodies, report, calls, init0, conv, iter>>

\* compute_pn_accelerations: sun = bodies[0]; M = sun.mass
PnEnter(t) ==
    LET f == frames[t]
    IN  /\ f.pc = "pn_enter"
        /\ IF Len(bodies) = 0
           THEN /\ frames' = [frames EXCEPT ![t] = IdleFrame]
                /\ ret' = "IndexError"
                /\ ends' = Append(ends, Ended(t))
           ELSE /\ frames' = [frames EXCEPT ![t].pc = "pn", ![t].idx = 2,
                                            ![t].M = bodies[1].mass]
                /\ ret' = ret
                /\ ends' = ends
        /\ UNCHANGED <<bodies, report, calls, init0, conv, iter, acc3>>

\* Mutant of PnIter: the central body is given the opposite correction.
PnIterReacts(t) ==
    LET f == frames[t]
        c == PnCorrection(bodies[f.idx], bodies[1], f.M)
    IN  /\ f.pc = "pn"
        /\ f.idx <= Len(bodies)
        /\ bodies' = [bodies EXCEPT ![f.idx].acc = VAdd(@, c),
                                    ![1].acc = VSub(@, c)]
        /\ frames' = [frames EXCEPT ![t].idx = @ + 1,
                                    ![t].log = Append(@, <<"pn", f.idx>>)]
        /\ UNCHANGED <<ret, report, calls, init0, conv, iter, acc3, ends>>

\* compute_pn_accelerations: for b in bodies[1:]: ... b.acc += correction
PnIter(t) ==
    LET f == frames[t]
    IN  /\ f.pc = "pn"
        /\ f.idx <= Len(bodies)
        /\ bodies' = [bodies EXCEPT ![f.idx] = PnBody(@, bodies[1], f.M)]
        /\ frames' = [frames EXCEPT ![t].idx = @ + 1,
                                    ![t].log = Append(@, <<"pn", f.idx>>)]
        /\ UNCHANGED <<ret, report, calls, init0, conv, iter, acc3, ends>>

PnExit(t) ==
    LET f == frames[t]
    IN  /\ f.pc = "pn"
        /\ f.idx > Len(bodies)
        /\ Goto(t, PhaseAfter("pn", f.fn, f.rel))
        /\ UNCHANGED <<bodies, report, calls, init0, conv, iter>>

\* for b in bodies: b.vel += 0.5 * b.acc * dt        (phase 4)
Kick2Iter(t) ==
    LET f == frames[t]
    IN  /\ f.pc = "kick2"
        /\ f.idx <= Len(bodies)
        /\ bodies' = [bodies EXCEPT ![f.idx] = KickBody(@, f.dt)]
        /\ frames' = [frames EXCEPT ![t].idx = @ + 1,
                                    ![t].log = Append(@, <<"kick2", f.idx>>)]
        /\ UNCHANGED <<ret, report, calls, init0, conv, iter, acc3, ends>>

Kick2Exit(t) ==
    LET f == frames[t]
    IN  /\ f.pc = "kick2"
        /\ f.idx > Len(bodies)
        /\ Goto(t, PhaseAfter("kick2", f.fn, f.rel))
        /\ UNCHANGED <<bodies, report, calls, init0, conv, iter>>

\* One statement of the call thread t is in.
Run(t) ==
    \/ Kick1Iter(t) \/ Kick1Exit(t)
    \/ DriftIter(t) \/ DriftExit(t)
    \/ ResetIter(t) \/ ResetExit(t)
    \/ PairIter(t)  \/ PairsExit(t)
    \/ PnEnter(t)   \/ PnIter(t)  \/ PnExit(t)
    \/ Kick2Iter(t) \/ Kick2Exit(t)

\* ---- physics/diagnostics.py: diagnostics_report -------------------------
\* A value handed to or computed by the report carries the Python type that
\* decides how a division by zero ends: <<"None">>, <<"float", x>> (a Python
\* float), <<"float64", x>> (a numpy scalar) or <<"ndarray", v>>.
NoRef == <<"None">>

\* total_energy starts from the Python floats 0.0 and adds numpy scalars to
\* them: what it returns is a Python float only for an empty collection.
EnergyValue(bs) ==
    <<IF Len(bs) = 0 THEN "float" ELSE "float64", total_energy(bs)>>

\* x / y for two typed scalars. Python raises on a zero divisor when both
\* sides are Python floats; numpy returns an infinity or a nan instead.
TrueDivide(x, y) ==
    IF y[2] # Zero THEN <<"value", FDiv(x[2], y[2])>>
    ELSE IF x[1] = "float" /\ y[1] = "float" THEN <<"ZeroDivisionError">>
    ELSE <<"value", IF FSgn(x[2]) > 0 THEN Inf
                    ELSE IF FSgn(x[2]) < 0 THEN NegInf ELSE NaN>>

\* E - E0 is a numpy scalar as soon as one side is.
TypedSub(x, y) ==
    <<IF x[1] = "float" /\ y[1] = "float" THEN "float" ELSE "float64",
      FSub(x[2], y[2])>>

\* The drift fields are always written in this variant.
ReportKeysAlways(E0, H0) == {"energy", "H_vec", "dE/E0", "|dH|/|H0|"}

\* The keys of the dictionary: a drift field is written when its reference
\* is not None.
ReportKeys(E0, H0) ==
    {"energy", "H_vec"}
        \cup (IF E0 # NoRef THEN {"dE/E0"} ELSE {})
        \cup (IF H0 # NoRef THEN {"|dH|/|H0|"} ELSE {})

\* diagnostics_report(bs, E0, H0): <<"report", dict, E0, H0>> when it returns
\* and <<"raised", exception, E0, H0>> when the energy drift raises.
diagnostics_report(bs, E0, H0) ==
    LET E    == EnergyValue(bs)
        H    == total_angular_momentum(bs)
        keys == ReportKeys(E0, H0)
        dE   == IF "dE/E0" \in keys /\ E0 # NoRef
                THEN TrueDivide(TypedSub(E, E0), E0)
                ELSE <<"value", None>>
        dH   == IF "|dH|/|H0|" \in keys /\ H0 # NoRef
                THEN TrueDivide(<<"float64", Norm(VSub(H, H0[2]))>>,
                                <<"float64", Norm(H0[2])>>)
                ELSE <<"value", None>>
    IN  IF dE[1] = "ZeroDivisionError" THEN <<"raised", dE[1], E0, H0>>
        ELSE <<"report",
               [k \in keys |-> CASE k = "energy" -> E[2]
                                 [] k = "H_vec"  -> H
                                 [] k = "dE/E0"  -> dE[2]
                                 [] OTHER        -> dH[2]],
               E0, H0>>

\* The references a caller holds: none, the energy and angular momentum of
\* the collection as it was built (main.py keeps these), or a plain 0.0.
EnergyRefs == {NoRef, EnergyValue(init0), <<"float", Zero>>}
MomentumRefs == {NoRef, <<"ndarray", total_angular_momentum(init0)>>}

\* The driving loop calls diagnostics_report(bodies, E0, H0) between two steps.
ReportCall(t, E0, H0) ==
    /\ t = MainThread
    /\ AllIdle
    /\ report' = diagnostics_report(bodies, E0, H0)
    /\ UNCHANGED <<bodies, frames, ret, calls, init0, conv, iter, acc3, ends>>

Next ==
    \/ \E t \in Threads, dt \in DtSet, rel \in BOOLEAN : StepCall(t, dt, rel)
    \/ \E t \in Threads, E0 \in EnergyRefs, H0 \in MomentumRefs :
          ReportCall(t, E0, H0)
    \/ \E t \in Threads : EnergyCall(t)
    \/ \E t \in Threads : AngMomCall(t)
    \/ \E t \in Threads : Run(t)

Spec == Init /\ [][Next]_vars

\* ------------------------------------------------------------------------
\* The functions called on their own, on any collection a caller may hold
\* ------------------------------------------------------------------------

\* A body whose acceleration field holds a value left by earlier use.
WithAcc(b, a) == [b EXCEPT !.acc = a]

\* Collections a caller may pass besides the builders': coincident bodies,
\* a zero mass, stale accelerations, one body, none.
UnitSystems ==
    { create_test_system,
      << WithAcc(Body(FromInt(2), IVec(1, 1, 0), IVec(0, 1, 0)), IVec(5, 0, -1)),
         WithAcc(Body(FromInt(3), IVec(1, 1, 0), IVec(1, 0, 0)), IVec(0, 7, 0)) >>,
      << WithAcc(Body(FromInt(3), IVec(0, 0, 0), IVec(0, 0, 0)), IVec(1, 2, 3)),
         WithAcc(Body(FromRatio(1, 3), IVec(1, 2, 2), IVec(0, 3, -1)), IVec(-1, 0, 4)) >>,
      << WithAcc(Body(FromInt(5), IVec(0, 0, 0), IVec(0, 0, 0)), IVec(0, 1, 0)),
         Body(Zero, IVec(3, 0, 4), IVec(0, 2, 0)),
         WithAcc(Body(FromRatio(1, 7), IVec(-2, 1, 2), IVec(1, 0, 1)), IVec(2, 0, 0)) >>,
      load_solar_system(FromInt(1000000), <<PlanetD>>),
      << WithAcc(Body(FromInt(1), IVec(1, 0, 0), IVec(0, 1, 0)), IVec(0, 0, 2)) >>,
      << Body(FromInt(1), IVec(1, 0, 0), IVec(0, 1, 0)) >>,
      << >> }

InitUnit ==
    /\ bodies \in UnitSystems
    /\ frames = [t \in Threads |-> IdleFrame]
    /\ ret = "none"
    /\ report = <<"none">>
    /\ calls = <<>>
    /\ init0 = bodies
    /\ acc3 = <<>>
    /\ conv = IdleConv
    /\ iter = -1
    /\ ends = <<>>

\* A caller calls compute_accelerations(bodies).
AccCall(t) ==
    /\ t = MainThread
    /\ AllIdle
    /\ Len(calls) < MaxCalls
    /\ frames' = [frames EXCEPT ![t] =
                     [IdleFrame EXCEPT !.pc = "reset", !.fn = "acc", !.pre = bodies]]
    /\ ret' = "none"
    /\ report' = <<"none">>
    /\ calls' = Append(calls, <<"acc", Zero, FALSE>>)
    /\ UNCHANGED <<bodies, init0, conv, iter, acc3, ends>>

\* A caller calls compute_pn_accelerations(bodies).
PnCall(t) ==
    /\ t = MainThread
    /\ AllIdle
    /\ Len(calls) < MaxCalls
    /\ frames' = [frames EXCEPT ![t] =
                     [IdleFrame EXCEPT !.pc = "pn_enter", !.fn = "pn", !.pre = bodies]]
    /\ ret' = "none"
    /\ report' = <<"none">>
    /\ calls' = Append(calls, <<"pn", Zero, FALSE>>)
    /\ UNCHANGED <<bodies, init0, conv, iter, acc3, ends>>

NextUnit ==
    \/ \E t \in Threads, dt \in DtSet, rel \in BOOLEAN : StepCall(t, dt, rel)
    \/ \E t \in Threads, E0 \in EnergyRefs, H0 \in MomentumRefs :
          ReportCall(t, E0, H0)
    \/ \E t \in Threads : AccCall(t)
    \/ \E t \in Threads : PnCall(t)
    \/ \E t \in Threads : EnergyCall(t)
    \/ \E t \in Threads : AngMomCall(t)
    \/ \E t \in Threads : Run(t)

SpecUnit == InitUnit /\ [][NextUnit]_vars

\* ------------------------------------------------------------------------
\* The methods of SolarSystem, called by a set-up or display routine
\* ------------------------------------------------------------------------

\* A Sun at the origin and planets around it, before the move to the
\* barycentre.
Unmoved(sun_mass, planets) == <<Body(sun_mass, ZeroVec, ZeroVec)>> \o planets

\* Collections a caller may hold when it calls a method of SolarSystem.
SetupSystems ==
    UnitSystems
        \cup { Unmoved(FromInt(1), <<PlanetB>>),
               Unmoved(FromInt(2), <<PlanetB, PlanetC>>),
               Unmoved(FromRatio(1, 3), <<PlanetC, PlanetB, PlanetD>>),
               << Body(Zero, IVec(1, 2, 3), IVec(0, 1, 0)) >> }

\* The decimations a caller passes to add_trail_points.
Decimations == 1..3

InitSetup ==
    /\ bodies \in SetupSystems
    /\ frames = [t \in Threads |-> IdleFrame]
    /\ ret = "none"
    /\ report = <<"none">>
    /\ calls = <<>>
    /\ init0 = bodies
    /\ acc3 = <<>>
    /\ conv = IdleConv
    /\ iter = -1
    /\ ends = <<>>

\* A caller calls system.move_to_barycenter().
BarycenterCall(t) ==
    /\ t = MainThread
    /\ AllIdle
    /\ Len(calls) < MaxCalls
    /\ bodies' = move_to_barycenter(bodies)
    /\ calls' = Append(calls, <<"barycenter", 0, FALSE>>)
    /\ ends' = Append(ends, [fn |-> "barycenter", dt |-> Zero, rel |-> FALSE,
                             pre |-> bodies, post |-> bodies', alone |-> TRUE])
    /\ ret' = "ok"
    /\ UNCHANGED <<frames, report, init0, conv, iter, acc3>>

\* A caller calls system.add_trail_points(decimation).
TrailCall(t, decimation) ==
    /\ t = MainThread
    /\ AllIdle
    /\ Len(calls) < MaxCalls + 2
    /\ bodies' = add_trail_points(bodies, decimation)
    /\ calls' = Append(calls, <<"trail", decimation, FALSE>>)
    /\ ret' = "ok"
    /\ UNCHANGED <<frames, report, init0, conv, iter, acc3, ends>>

NextSetup ==
    \/ \E t \in Threads : BarycenterCall(t)
    \/ \E t \in Threads, decimation \in Decimations : TrailCall(t, decimation)

SpecSetup == InitSetup /\ [][NextSetup]_vars

\* ------------------------------------------------------------------------
\* The element converter, called by a set-up or display routine
\* ------------------------------------------------------------------------

Elements(a, e, i, Omega, omega, M) ==
    [a |-> a, e |-> e, i |-> i, Omega |-> Omega, omega |-> omega, M |-> M]

\* The element sets a caller passes to elements_to_state.
ElementSets ==
    { Elements(a, e, i, Omega, omega, M) :
        a \in {FromInt(1), FromRatio(5, 2)},
        e \in {Zero, FromRatio(1, 4), FromRatio(1, 2), FromRatio(15, 16)},
        i \in {Zero, FromRatio(1, 2)},
        Omega \in {Zero, FromRatio(1, 2), FromInt(4)},
        omega \in {Zero, FromInt(1)},
        M \in {Zero, FromInt(1), FromInt(-2)} }

\* The gravitational parameters a caller passes.
MuSet == {G, FromInt(1)}

\* The mean anomalies and eccentricities a caller passes to solve_kepler.
KeplerInputs ==
    { <<M, e>> :
        M \in {Zero, FromInt(1), FromInt(-2), FromInt(7), FromInt(100)},
        e \in {Zero, FromRatio(1, 2), FromRatio(8, 10), FromRatio(15, 16),
               FromRatio(1023, 1024)} }

\* The Earth of the test system, as test_orbital_elements passes it.
EarthState(bs) == <<bs[2].pos, bs[2].vel, G>>

\* States <<r, v, mu>> a caller passes to state_to_elements and
\* osculating_elements: circular and equatorial ones at several angles,
\* circular inclined, elliptic, parabolic, hyperbolic and radial ones.
OrbitStates ==
    { <<IVec(1, 0, 0), IVec(0, 1, 0), FromInt(1)>>,
      <<IVec(0, 4, 0), IVec(-1, 0, 0), FromInt(4)>>,
      <<IVec(-1, 0, 0), IVec(0, -2, 0), FromInt(4)>>,
      <<IVec(0, -1, 0), IVec(1, 0, 0), FromInt(1)>>,
      <<IVec(3, 4, 0), <<FromRatio(-8, 10), FromRatio(6, 10), Zero>>, FromInt(5)>>,
      <<IVec(-3, -4, 0), <<FromRatio(8, 10), FromRatio(-6, 10), Zero>>, FromInt(5)>>,
      <<IVec(2, 0, 0), IVec(0, 0, 1), FromInt(2)>>,
      <<IVec(1, 0, 0), <<Zero, FromRatio(6, 10), FromRatio(8, 10)>>, FromInt(1)>>,
      <<IVec(1, 0, 0), <<Zero, FromRatio(12, 10), Zero>>, FromInt(1)>>,
      <<IVec(1, 2, 2), IVec(0, 3, -1), G>>,
      <<IVec(1, 0, 0), IVec(0, 2, 0), FromInt(2)>>,
      <<IVec(1, 0, 0), IVec(0, 2, 0), FromInt(1)>>,
      <<IVec(1, 0, 0), IVec(1, 0, 0), FromInt(1)>>,
      EarthState(create_test_system) }

InitConv ==
    /\ bodies = create_test_system
    /\ frames = [t \in Threads |-> IdleFrame]
    /\ ret = "none"
    /\ report = <<"none">>
    /\ calls = <<>>
    /\ init0 = bodies
    /\ acc3 = <<>>
    /\ conv = IdleConv
    /\ iter = -1
    /\ ends = <<>>

\* The converter is not inside a call, and the caller holds no result.
ConvFree == conv.pc = "idle"

\* The caller is done with the result it was returned.
Discard ==
    /\ conv.pc = "done"
    /\ conv' = IdleConv
    /\ iter' = iter
    /\ UNCHANGED <<bodies, frames, ret, report, calls, init0, acc3, ends>>

\* A caller calls elements_to_state(a, e, i, Omega, omega, M, mu): E = M.
ElementsToStateCall(el, mu) ==
    /\ ConvFree
    /\ conv' = [IdleConv EXCEPT !.pc = "newton", !.fn = "elements_to_state",
                                !.arg = <<el, mu>>, !.E = el.M]
    /\ iter' = 0
    /\ UNCHANGED <<bodies, frames, ret, report, calls, init0, acc3, ends>>

\* elements_to_state: for _ in range(10): E -= kepler(...) / kepler_prime(...)
NewtonIter ==
    /\ conv.pc = "newton"
    /\ conv.n < NewtonSteps
    /\ conv' = [conv EXCEPT !.E = NewtonStep(conv.E, conv.arg[1].M, conv.arg[1].e),
                            !.dE = NewtonCorrection(conv.E, conv.arg[1].M,
                                                    conv.arg[1].e),
                            !.n = conv.n + 1]
    /\ iter' = iter + 1
    /\ UNCHANGED <<bodies, frames, ret, report, calls, init0, acc3, ends>>

\* elements_to_state: the loop is over; the state is built and returned.
NewtonExit ==
    /\ conv.pc = "newton"
    /\ conv.n = NewtonSteps
    /\ conv' = [conv EXCEPT !.pc = "done",
                            !.out = StateFromE(conv.arg[1], conv.arg[2], conv.E)]
    /\ iter' = -1
    /\ UNCHANGED <<bodies, frames, ret, report, calls, init0, acc3, ends>>

\* The state elements_to_state has just returned, with the mu it was given.
Returned ==
    IF conv.pc = "done" /\ conv.fn = "elements_to_state"
    THEN {<<conv.out[1], conv.out[2], conv.arg[2]>>}
    ELSE {}

\* A caller calls state_to_elements(r, v, mu), on a state of its own or on
\* the one elements_to_state has just returned (then from holds the elements
\* that state was made from).
StateToElementsCall(s) ==
    /\ ConvFree \/ s \in Returned
    /\ conv' = [IdleConv EXCEPT !.pc = "done", !.fn = "state_to_elements",
                                !.arg = s,
                                !.out = state_to_elements(s[1], s[2], s[3]),
                                !.from = IF s \in Returned THEN <<conv.arg[1]>>
                                         ELSE <<>>]
    /\ iter' = iter
    /\ UNCHANGED <<bodies, frames, ret, report, calls, init0, acc3, ends>>

\* A caller calls osculating_elements(r, v, mu).
OsculatingCall(s) ==
    /\ ConvFree
    /\ conv' = [IdleConv EXCEPT !.pc = "done", !.fn = "osculating_elements",
                                !.arg = s,
                                !.out = osculating_elements(s[1], s[2], s[3])]
    /\ iter' = iter
    /\ UNCHANGED <<bodies, frames, ret, report, calls, init0, acc3, ends>>

\* A caller calls solve_kepler(M, e).
SolveKeplerCall(M, e) ==
    /\ ConvFree
    /\ conv' = [IdleConv EXCEPT !.pc = "solve", !.fn = "solve_kepler",
                                !.arg = <<M, e>>, !.E = SolveStart(M, e)]
    /\ iter' = 0
    /\ UNCHANGED <<bodies, frames, ret, report, calls, init0, acc3, ends>>

\* solve_kepler: one pass of the loop; it breaks when abs(dE) < tol.
SolveIter ==
    LET Over(dE) == FLt(FAbs(dE), Tiny)
        Store(dE, E, over) ==
            /\ conv' = [conv EXCEPT !.E = E, !.dE = dE, !.n = conv.n + 1,
                                    !.pc = IF over THEN "done" ELSE "solve",
                                    !.out = IF over THEN <<E>> ELSE <<>>]
            /\ iter' = IF over THEN -1 ELSE iter + 1
        Step(dE) == Store(dE, FAdd(conv.E, dE), Over(dE))
    IN  /\ conv.pc = "solve"
        /\ conv.n < max_iter
        /\ Step(SolveDelta(conv.E, WrapM(conv.arg[1]), conv.arg[2]))
        /\ UNCHANGED <<bodies, frames, ret, report, calls, init0, acc3, ends>>

\* Mutant of SolveExit: running out of iterations is raised as an error.
SolveExitRaises ==
    /\ conv.pc = "solve"
    /\ conv.n = max_iter
    /\ conv' = [conv EXCEPT !.pc = "raised"]
    /\ iter' = -1
    /\ UNCHANGED <<bodies, frames, ret, report, calls, init0, acc3, ends>>

\* solve_kepler: the iterations are used up; the last iterate is returned.
SolveExit ==
    /\ conv.pc = "solve"
    /\ conv.n = max_iter
    /\ conv' = [conv EXCEPT !.pc = "done", !.out = <<conv.E>>]
    /\ iter' = -1
    /\ UNCHANGED <<bodies, frames, ret, report, calls, init0, acc3, ends>>

NextConv ==
    \/ \E el \in ElementSets, mu \in MuSet : ElementsToStateCall(el, mu)
    \/ NewtonIter
    \/ NewtonExit
    \/ \E s \in OrbitStates \cup Returned : StateToElementsCall(s)
    \/ \E s \in OrbitStates : OsculatingCall(s)
    \/ \E k \in KeplerInputs : SolveKeplerCall(k[1], k[2])
    \/ SolveIter
    \/ SolveExit
    \/ Discard

SpecConv == InitConv /\ [][NextConv]_vars

\* A statement of a Newton loop: it moves on to the next pass or leaves.
LoopStep == iter >= 0 /\ (iter' = iter + 1 \/ iter' = -1)

\* A loop that has started keeps running until it is left.
SpecConvFair == SpecConv /\ WF_iter(LoopStep)

\* ------------------------------------------------------------------------
\* What the phases compute, collection-wide
\* ------------------------------------------------------------------------

IsPrefix(s, t) == Len(s) <= Len(t) /\ SubSeq(t, 1, Len(s)) = s

\* The pull of body j on body k as the pair loop adds it to body k.
PullOn(bs, k, j) == IF j < k THEN PairAj(bs[j], bs[k]) ELSE PairAi(bs[k], bs[j])

RECURSIVE SumPulls(_, _, _)
SumPulls(bs, k, j) ==
    IF j = 0 THEN ZeroVec
    ELSE IF j = k THEN SumPulls(bs, k, j - 1)
    ELSE VAdd(SumPulls(bs, k, j - 1), PullOn(bs, k, j))

\* The softened Newtonian acceleration of body k: the sum over j # k of the
\* pulls, from the masses and positions alone.
NewtonAcc(bs, k) == SumPulls(bs, k, Len(bs))

KickAll(bs, dt) == [k \in 1..Len(bs) |-> KickBody(bs[k], dt)]

DriftAll(bs, dt) == [k \in 1..Len(bs) |-> DriftBody(bs[k], dt)]

NewtonAll(bs) == [k \in 1..Len(bs) |-> [bs[k] EXCEPT !.acc = NewtonAcc(bs, k)]]

PnAll(bs) ==
    [k \in 1..Len(bs) |->
        IF k = 1 THEN bs[k]
        ELSE [bs[k] EXCEPT !.acc = VAdd(@, PnCorrection(bs[k], bs[1], bs[1].mass))]]

\* Phases (1) to (4) of one velocity-Verlet step, each over the whole collection.
VerletStep(bs, dt, rel) ==
    LET kicked  == KickAll(bs, dt)
        drifted == DriftAll(kicked, dt)
        newton  == NewtonAll(drifted)
        forced  == IF rel THEN PnAll(newton) ELSE newton
    IN  KickAll(forced, dt)

PhaseEvents(ph, n) == [k \in 1..n |-> <<ph, k>>]

RECURSIVE PairEvents(_, _)
PairEvents(i, n) ==
    IF i >= n THEN <<>>
    ELSE [k \in 1..(n - i) |-> <<"pair", i, i + k>>] \o PairEvents(i + 1, n)

PnEvents(n) == [k \in 1..(n - 1) |-> <<"pn", k + 1>>]

\* The order in which one step works on the bodies.
Schedule(n, rel) ==
    PhaseEvents("kick1", n) \o PhaseEvents("drift", n)
        \o PhaseEvents("reset", n) \o PairEvents(1, n)
        \o (IF rel THEN PnEvents(n) ELSE <<>>)
        \o PhaseEvents("kick2", n)

InStep(t) == frames[t].fn = "step"

\* Thread t's step has done all its work and is about to return.
StepDone(t) ==
    /\ InStep(t)
    /\ frames[t].pc = "kick2"
    /\ frames[t].idx > Len(bodies)

\* compute_accelerations has done all its work (on its own or inside a step).
AccDone(t) ==
    /\ frames[t].pc = "pairs"
    /\ frames[t].j > Len(bodies)

\* ------------------------------------------------------------------------
\* Claims
\* ------------------------------------------------------------------------

\* C1: one step_system call works through the phases in the order (1) half
\* kick, (2) drift with the half-kicked velocity, (3) accelerations at the new
\* positions (Newtonian, then the correction if asked for), (4) half kick with
\* the new accelerations; each phase is over for every body before the next
\* one starts for any, and the step returns the state these four phases give.
C1_PhaseOrder ==
    \A t \in Threads :
        InStep(t) =>
            /\ IsPrefix(frames[t].log, Schedule(Len(bodies), frames[t].rel))
            /\ StepDone(t) =>
                  /\ frames[t].log = Schedule(Len(bodies), frames[t].rel)
                  /\ bodies = VerletStep(frames[t].pre, frames[t].dt, frames[t].rel)

\* A step with the correction, over two bodies or more, has done its work
\* and moved the bodies.
C1_Witness ==
    \E t \in Threads :
        /\ StepDone(t)
        /\ frames[t].rel
        /\ Len(bodies) >= 3
        /\ \A k \in 1..Len(bodies) :
              /\ bodies[k].pos # frames[t].pre[k].pos
              /\ bodies[k].vel # frames[t].pre[k].vel

\* C2: compute_accelerations overwrites every body's acceleration: what it
\* leaves is the sum of the pulls at the current masses and positions, whatever
\* the acceleration fields held before the call.
C2_Overwrites ==
    \A t \in Threads :
        AccDone(t) =>
            /\ \A k \in 1..Len(bodies) : bodies[k].acc = NewtonAcc(bodies, k)
            /\ ( /\ frames[t].fn = "acc"
                 /\ Len(calls) >= 2
                 /\ calls[Len(calls) - 1][1] = "acc" )
               => AccOf(bodies) = AccOf(frames[t].pre)

\* compute_accelerations, called on bodies that held other non-zero
\* accelerations before, has done its work.
C2_Witness ==
    \E t \in Threads :
        /\ AccDone(t)
        /\ frames[t].fn = "acc"
        /\ Len(bodies) >= 2
        /\ \A k \in 1..Len(bodies) :
              /\ frames[t].pre[k].acc # ZeroVec
              /\ frames[t].pre[k].acc # bodies[k].acc
              /\ frames[t].pre[k].pos = bodies[k].pos

VNeg(v) == <<FNeg(v[1]), FNeg(v[2]), FNeg(v[3])>>

\* |x - y| <= k * 2^-Prec * max(|x|, |y|): x and y agree to within k roundings.
CloseTo(x, y, k) ==
    LET big == IF FLe(FAbs(x), FAbs(y)) THEN FAbs(y) ELSE FAbs(x)
    IN  FLe(FAbs(FSub(x, y)), FMul(Round(k, -Prec), big))

VCloseTo(u, v, k) == \A c \in 1..3 : CloseTo(u[c], v[c], k)

\* C3 as stated: for two bodies, m_i * a_i = -(m_j * a_j) exactly.
C3_ExactlyOpposite ==
    \A t \in Threads :
        (AccDone(t) /\ Len(bodies) = 2) =>
            VScale(bodies[1].mass, bodies[1].acc)
                = VNeg(VScale(bodies[2].mass, bodies[2].acc))

\* C3, amended: for two bodies, m_i * a_i and -(m_j * a_j) agree to within the
\* roundings of the four multiplications that make each of them (and exactly,
\* both zero, when the positions coincide).
C3_OppositeToRounding ==
    \A t \in Threads :
        (AccDone(t) /\ Len(bodies) = 2) =>
            /\ VCloseTo(VScale(bodies[1].mass, bodies[1].acc),
                        VNeg(VScale(bodies[2].mass, bodies[2].acc)), 8)
            /\ bodies[1].pos = bodies[2].pos =>
                  bodies[1].acc = ZeroVec /\ bodies[2].acc = ZeroVec

\* compute_accelerations has worked on two bodies of different masses that
\* pull on each other.
C3_Witness ==
    \E t \in Threads :
        /\ AccDone(t)
        /\ Len(bodies) = 2
        /\ bodies[1].mass # bodies[2].mass
        /\ bodies[1].acc # ZeroVec
        /\ bodies[2].acc # ZeroVec

\* The places of event ev in a log.
Places(log, ev) == {p \in 1..Len(log) : log[p] = ev}

\* The places of the events of compute_accelerations in a log.
ForcePlaces(log) == {p \in 1..Len(log) : log[p][1] \in {"reset", "pair"}}

\* C4: in a step with the correction, the acceleration the second half kick
\* uses is, for every body but the central one, the Newtonian acceleration at
\* the new positions plus the post-Newtonian term, and the correction has run
\* exactly once for each such body, after compute_accelerations was over.
C4_CorrectionAddedOnce ==
    \A t \in Threads :
        (InStep(t) /\ frames[t].rel /\ frames[t].pc = "kick2") =>
            /\ frames[t].idx = 1 =>
                  \A k \in 1..Len(bodies) :
                      bodies[k].acc =
                          IF k = 1 THEN NewtonAcc(bodies, k)
                          ELSE VAdd(NewtonAcc(bodies, k),
                                    PnCorrection(bodies[k], bodies[1], bodies[1].mass))
            /\ \A k \in 2..Len(bodies) :
                  /\ Cardinality(Places(frames[t].log, <<"pn", k>>)) = 1
                  /\ \A p \in Places(frames[t].log, <<"pn", k>>) :
                        /\ \A q \in ForcePlaces(frames[t].log) : q < p
                        /\ \A j \in 1..Len(bodies) :
                              \A q \in Places(frames[t].log, <<"kick2", j>>) : p < q

\* A step with the correction is about to make its second half kick, and the
\* correction is large enough to show in the acceleration.
C4_Witness ==
    \E t \in Threads :
        /\ InStep(t)
        /\ frames[t].rel
        /\ frames[t].pc = "kick2"
        /\ frames[t].idx = 1
        /\ Len(bodies) >= 2
        /\ NewtonAcc(bodies, 2) # ZeroVec
        /\ bodies[2].acc # NewtonAcc(bodies, 2)

\* compute_pn_accelerations, called on its own, has done all its work.
PnDone(t) ==
    /\ frames[t].fn = "pn"
    /\ frames[t].pc = "pn"
    /\ frames[t].idx > Len(bodies)

\* What a step of compute_pn_accelerations may change.
PnStepFrame(t) ==
    /\ Len(bodies') = Len(bodies)
    /\ \A k \in 1..Len(bodies) :
          /\ bodies'[k].mass = bodies[k].mass
          /\ bodies'[k].pos = bodies[k].pos
          /\ bodies'[k].vel = bodies[k].vel
          /\ k = 1 => bodies'[k].acc = bodies[k].acc
          /\ bodies'[k].acc # bodies[k].acc =>
                /\ k = frames[t].idx
                /\ bodies'[k].acc =
                      VAdd(bodies[k].acc,
                           PnCorrection(bodies[k], bodies[1], bodies[1].mass))

\* C5: compute_pn_accelerations changes nothing but the accelerations of
\* bodies[1:], each by the term computed from that body and bodies[0]; the
\* acceleration of bodies[0] and every position, velocity and mass stay.
C5_PnFrame ==
    /\ [][\A t \in Threads :
            frames[t].pc \in {"pn_enter", "pn"} => PnStepFrame(t)]_vars
    /\ [](\A t \in Threads : PnDone(t) => bodies = PnAll(frames[t].pre))

\* compute_pn_accelerations, called on its own, has changed the acceleration
\* of a body.
C5_Witness ==
    \E t \in Threads :
        /\ PnDone(t)
        /\ Len(bodies) >= 2
        /\ bodies[2].acc # frames[t].pre[2].acc

LastCall == calls[Len(calls)]

\* C6: a step called without the correction never enters
\* compute_pn_accelerations and leaves every body with the Newtonian
\* acceleration at the new positions, whatever flag the step before had.
C6_NoCorrectionWhenOff ==
    /\ \A t \in Threads :
          (InStep(t) /\ ~frames[t].rel) =>
              /\ frames[t].pc \notin {"pn_enter", "pn"}
              /\ \A p \in 1..Len(frames[t].log) : frames[t].log[p][1] # "pn"
              /\ frames[t].pc = "kick2" =>
                    \A k \in 1..Len(bodies) : bodies[k].acc = NewtonAcc(bodies, k)
    /\ (AllIdle /\ calls # <<>> /\ ret = "ok") =>
          ( (LastCall[1] = "step" /\ ~LastCall[3]) =>
              \A k \in 1..Len(bodies) : bodies[k].acc = NewtonAcc(bodies, k) )

\* A step without the correction has returned after a step with it, on
\* bodies whose correction would have shown.
C6_Witness ==
    /\ AllIdle
    /\ ret = "ok"
    /\ Len(calls) >= 2
    /\ calls[Len(calls) - 1][3]
    /\ ~LastCall[3]
    /\ Len(bodies) >= 2
    /\ VAdd(bodies[2].acc, PnCorrection(bodies[2], bodies[1], bodies[1].mass))
          # bodies[2].acc

Within(u, v, tol) == \A c \in 1..3 : FLe(FAbs(FSub(u[c], v[c])), tol)

\* The calls so far are N steps with some dt and then N steps with -dt, all
\* without the correction.
ForwardThenBack(N) ==
    /\ Len(calls) = 2 * N
    /\ \E dt \in DtSet :
          \A p \in 1..N :
              /\ calls[p] = <<"step", dt, FALSE>>
              /\ calls[N + p] = <<"step", FNeg(dt), FALSE>>

\* C7 as stated: from a collection as a builder delivers it, N steps forward
\* and N steps back bring every position and velocity back to within 1e-6.
C7_Reversible ==
    \A N \in 1..MaxCalls :
        (AllIdle /\ ForwardThenBack(N)) =>
            \A k \in 1..Len(bodies) :
                /\ Within(bodies[k].pos, init0[k].pos, FromRatio(1, 1000000))
                /\ Within(bodies[k].vel, init0[k].vel, FromRatio(1, 1000000))

\* C8: the first half kick of a step reads the accelerations that phase (3)
\* of the step before left: nothing rewrites them during the second half
\* kick, at the return, in the diagnostics the driving loop calls between
\* the steps, or during the first half kick.
C8_KickReadsLastAcc ==
    /\ \A t \in Threads :
          (InStep(t) /\ frames[t].pc = "kick1" /\ Len(calls) >= 2) =>
              AccOf(bodies) = acc3
    /\ (AllIdle /\ calls # <<>> /\ ret = "ok") => AccOf(bodies) = acc3

\* The first half kick of a second or later step has acted on every body,
\* with accelerations that are not zero, after a diagnostics call.
C8_Witness ==
    \E t \in Threads :
        /\ InStep(t)
        /\ frames[t].pc = "kick1"
        /\ frames[t].after # "none"
        /\ frames[t].idx > Len(bodies)
        /\ Len(calls) >= 2
        /\ Len(bodies) >= 2
        /\ \A k \in 1..Len(bodies) :
              /\ acc3[k] # ZeroVec
              /\ bodies[k].vel # frames[t].pre[k].vel

\* ------------------------------------------------------------------------
\* Claims about the element converter
\* ------------------------------------------------------------------------

\* |x - y| <= tol
Near(x, y, tol) == FLe(FAbs(FSub(x, y)), tol)

\* The angles x and y are the same direction to within tol.
SameAngle(x, y, tol) ==
    \/ Near(x, y, tol)
    \/ Near(FAdd(x, TwoPi), y, tol)
    \/ Near(x, FAdd(y, TwoPi), tol)

\* state_to_elements has returned, for a state elements_to_state made.
RoundTripDone ==
    /\ conv.pc = "done"
    /\ conv.fn = "state_to_elements"
    /\ conv.from # <<>>

\* A tolerance far wider than 1e-6 and than the rounding of the model's
\* arithmetic: a difference beyond it is not a rounding error.
RoundTripTol == FromRatio(1, 16)

\* C11 as stated: elements_to_state followed by state_to_elements with the
\* same mu gives back each of the six elements (here even to within 1/16 only)
\* for every element set with a > 0 and 0 <= e < 0.9.
C11_RoundTrip ==
    (RoundTripDone /\ FLt(conv.from[1].e, FromRatio(9, 10))) =>
        LET el == conv.from[1]
        IN  /\ conv.out.raised = "none"
            /\ Near(conv.out.a, el.a, RoundTripTol)
            /\ Near(conv.out.e, el.e, RoundTripTol)
            /\ Near(conv.out.i, el.i, RoundTripTol)
            /\ Near(conv.out.Omega, el.Omega, RoundTripTol)
            /\ Near(conv.out.omega, el.omega, RoundTripTol)
            /\ Near(conv.out.M, el.M, RoundTripTol)

\* The state <<r, v, mu>> is a perfectly circular orbit in the x-y plane, run
\* through counter-clockwise: r and v in the plane and perpendicular, and
\* |v|^2 = mu/|r| with no rounding error left, so that e = 0.
CircularEquatorial(s) ==
    /\ s[1][3] = Zero
    /\ s[2][3] = Zero
    /\ Dot(s[1], s[2]) = Zero
    /\ FSgn(Cross(s[1], s[2])[3]) > 0
    /\ FMul(Norm(s[2]), Norm(s[2])) = FDiv(s[3], Norm(s[1]))

\* C12: for a circular, equatorial state state_to_elements (and
\* osculating_elements) raises nothing and returns Omega = 0, omega = 0 and a
\* number for the anomaly: the angle of the position vector in the x-y plane.
C12_DegenerateOrbit ==
    (conv.pc = "done" /\ conv.fn \in {"state_to_elements", "osculating_elements"}
        /\ CircularEquatorial(conv.arg)) =>
        LET angle == Atan2(conv.arg[1][2], conv.arg[1][1])
        IN  /\ conv.fn = "state_to_elements" => conv.out.raised = "none"
            /\ conv.out.e = Zero
            /\ conv.out.i = Zero
            /\ conv.out.Omega = Zero
            /\ conv.out.omega = Zero
            /\ conv.out.M \notin {None, NaN, Inf}
            /\ SameAngle(conv.out.M, angle, FromRatio(1, 64))
            /\ conv.fn = "osculating_elements" =>
                  SameAngle(conv.out.nu, angle, FromRatio(1, 64))

\* state_to_elements has returned for a circular equatorial state whose
\* position is off the x axis.
C12_Witness ==
    /\ conv.pc = "done"
    /\ conv.fn = "state_to_elements"
    /\ CircularEquatorial(conv.arg)
    /\ conv.arg[1][2] # Zero
    /\ conv.out.M # Zero

\* C19: the Newton loops of elements_to_state and solve_kepler end within
\* their budget of iterations whether or not the iterate has settled, nothing
\* is raised (the divisor 1 - e*cos(E) is never zero), and what is returned is
\* built from the last iterate.
C19_KeplerBudget ==
    /\ [](/\ conv.pc \in {"idle", "newton", "solve", "done"}
          /\ conv.pc = "newton" =>
                /\ conv.n <= NewtonSteps
                /\ kepler_prime(conv.E, conv.arg[1].e) # Zero
          /\ conv.pc = "solve" =>
                /\ conv.n <= max_iter
                /\ kepler_prime(conv.E, conv.arg[2]) # Zero
          /\ (conv.pc = "done" /\ conv.fn = "elements_to_state") =>
                /\ conv.n = NewtonSteps
                /\ conv.out = StateFromE(conv.arg[1], conv.arg[2], conv.E)
          /\ (conv.pc = "done" /\ conv.fn = "solve_kepler") =>
                /\ conv.out = <<conv.E>>
                /\ conv.n = max_iter \/ FLt(FAbs(conv.dE), Tiny))
    /\ (conv.pc \in {"newton", "solve"}) ~> (conv.pc = "done")

\* solve_kepler has returned after all its iterations, the last correction
\* still above the tolerance.
C19_Witness ==
    /\ conv.pc = "done"
    /\ conv.fn = "solve_kepler"
    /\ conv.n = max_iter
    /\ ~FLt(FAbs(conv.dE), Tiny)

\* The state <<r, v, mu>> is a circular orbit about the origin, up to the
\* rounding of its components: r perpendicular to v and |v|^2 |r| = mu.
Circular(s) ==
    /\ Dot(s[1], s[2]) = Zero
    /\ CloseTo(FMul(Dot(s[2], s[2]), Norm(s[1])), s[3], 8)

\* |x - y| < tol * |y|
NearRel(x, y, tol) == FLt(FAbs(FSub(x, y)), FMul(tol, FAbs(y)))

\* The tolerance of test_orbital_elements.
TestTol == FromRatio(1, 10)

\* C20: for a circular orbit state osculating_elements reports a = |r|,
\* e = 0 and a period that is not None and is 2*pi*sqrt(|r|^3/mu), each to
\* within the tolerance 0.1 of the test; for the Earth of the test system,
\* a = 1, e = 0 and period = 1 to within 0.1.
C20_CircularElements ==
    (conv.pc = "done" /\ conv.fn = "osculating_elements" /\ Circular(conv.arg)) =>
        LET rmag == Norm(conv.arg[1])
            mu   == conv.arg[3]
        IN  /\ conv.out.a # Inf
            /\ NearRel(conv.out.a, rmag, TestTol)
            /\ FLt(conv.out.e, TestTol)
            /\ conv.out.period # None
            /\ conv.out.period =
                  FMul(FMul(FromInt(2), Pi), FSqrt(FAbs(FDiv(Cube(conv.out.a), mu))))
            /\ NearRel(conv.out.period,
                       FMul(FMul(FromInt(2), Pi), FSqrt(FDiv(Cube(rmag), mu))),
                       TestTol)
            /\ conv.arg = EarthState(bodies) =>
                  /\ Near(conv.out.a, FromInt(1), TestTol)
                  /\ Near(conv.out.period, FromInt(1), TestTol)

\* osculating_elements has returned for the Earth of the test system.
C20_Witness ==
    /\ conv.pc = "done"
    /\ conv.fn = "osculating_elements"
    /\ conv.arg = EarthState(bodies)
    /\ Circular(conv.arg)
    /\ conv.out.period # None

\* ------------------------------------------------------------------------
\* Two threads stepping one collection
\* ------------------------------------------------------------------------

\* step_system takes no lock and works in place on the bodies it is given:
\* a second thread can call it on the same list while the first is anywhere
\* in its own call, and the loops of the two then run interleaved, one
\* iteration at a time.  Each of the two threads makes one call, thread 1
\* first.
RaceSystems ==
    { create_test_system,
      << WithAcc(Body(FromInt(3), IVec(0, 0, 0), IVec(0, 0, 0)), IVec(1, 2, 3)),
         WithAcc(Body(FromRatio(1, 3), IVec(1, 2, 2), IVec(0, 3, -1)), IVec(-1, 0, 4)) >> }

InitRace ==
    /\ bodies \in RaceSystems
    /\ init0 = bodies
    /\ frames = [t \in Threads |-> IdleFrame]
    /\ ret = "none"
    /\ report = <<"none">>
    /\ calls = <<>>
    /\ acc3 = <<>>
    /\ conv = IdleConv
    /\ iter = -1
    /\ ends = <<>>

\* Thread t calls step_system(bodies, dt, include_relativity = rel), whatever
\* the other thread is doing.
RaceCall(t, dt, rel) ==
    /\ Len(calls) = t - 1
    /\ frames[t].pc = "idle"
    /\ frames' = [u \in Threads |->
                     IF u = t
                     THEN [IdleFrame EXCEPT !.pc = "kick1", !.fn = "step",
                                            !.dt = dt, !.rel = rel, !.pre = bodies,
                                            !.alone = \A w \in Threads \ {t} :
                                                         frames[w].pc = "idle"]
                     ELSE IF frames[u].pc = "idle" THEN frames[u]
                     ELSE [frames[u] EXCEPT !.alone = FALSE]]
    /\ calls' = Append(calls, <<"step", dt, rel>>)
    /\ UNCHANGED <<bodies, ret, report, init0, conv, iter, acc3, ends>>

NextRace ==
    \/ \E t \in Threads, rel \in BOOLEAN : RaceCall(t, DT, rel)
    \/ \E t \in Threads : Run(t)

SpecRace == InitRace /\ [][NextRace]_vars

\* ------------------------------------------------------------------------
\* Claims about the diagnostics
\* ------------------------------------------------------------------------

\* diagnostics_report has been called in this state, and nothing has run since.
Reported == report[1] \in {"report", "raised"}

\* The fields of a returned report are the energy and the angular momentum
\* vector of the collection, and one drift field for each reference that was
\* supplied: the quotient when the reference is not zero, an infinity or a
\* nan when it is.
ReportAsStated ==
    LET d  == report[2]
        E0 == report[3]
        H0 == report[4]
        E  == total_energy(bodies)
        H  == total_angular_momentum(bodies)
    IN  /\ {"energy", "H_vec"} \subseteq DOMAIN d
        /\ d["energy"] = E
        /\ d["H_vec"] = H
        /\ ("dE/E0" \in DOMAIN d) <=> (E0 # NoRef)
        /\ ("|dH|/|H0|" \in DOMAIN d) <=> (H0 # NoRef)
        /\ (E0 # NoRef /\ E0[2] # Zero)
              => d["dE/E0"] = FDiv(FSub(E, E0[2]), E0[2])
        /\ (E0 # NoRef /\ E0[2] = Zero) => d["dE/E0"] \in {Inf, NegInf, NaN}
        /\ (H0 # NoRef /\ Norm(H0[2]) # Zero)
              => d["|dH|/|H0|"] = FDiv(Norm(VSub(H, H0[2])), Norm(H0[2]))
        /\ (H0 # NoRef /\ Norm(H0[2]) = Zero) => d["|dH|/|H0|"] \in {Inf, NaN}

\* C13 as stated: every call of diagnostics_report returns a report with the
\* current energy and angular momentum vector, with the energy drift exactly
\* when E0 was supplied and the angular momentum drift exactly when H0 was,
\* and no call raises.
C13_ReportAlwaysReturns ==
    Reported => (report[1] = "report" /\ ReportAsStated)

\* C13, amended: a call of diagnostics_report raises exactly when the
\* collection is empty and an energy reference equal to zero was supplied
\* (ZeroDivisionError: both the energy and the reference are Python floats);
\* every other call returns a report with the current energy and angular
\* momentum vector, the energy drift exactly when E0 was supplied and the
\* angular momentum drift exactly when H0 was.  A reference that is None
\* leaves its field out and raises nothing.
C13_ReportUnlessEmpty ==
    Reported =>
        /\ (report[1] = "raised")
              <=> (Len(bodies) = 0 /\ report[3] # NoRef /\ report[3][2] = Zero)
        /\ report[1] = "raised" => report[2] = "ZeroDivisionError"
        /\ report[1] = "report" => ReportAsStated
        /\ report[3] = NoRef => report[1] = "report"

\* A report made after a step for a collection of several bodies, with the
\* energy reference supplied and the angular momentum reference left out.
C13_Witness ==
    /\ report[1] = "report"
    /\ calls # <<>>
    /\ Len(bodies) >= 2
    /\ report[3] # NoRef
    /\ report[4] = NoRef
    /\ "dE/E0" \in DOMAIN report[2]
    /\ "|dH|/|H0|" \notin DOMAIN report[2]

\* The sum of the first k numbers of xs, taken in order.
RECURSIVE FSum(_, _)
FSum(xs, k) == IF k = 0 THEN Zero ELSE FAdd(FSum(xs, k - 1), xs[k])

\* The unordered pairs i < j of a collection, each once.
PairsOf(bs) == PairEvents(1, Len(bs))

Separation(bs, p) == Norm(VSub(bs[p[2]].pos, bs[p[3]].pos))

Coincident(bs) == {k \in DOMAIN PairsOf(bs) : Separation(bs, PairsOf(bs)[k]) = Zero}

\* Sum over bodies of 1/2 m |v|^2.
KineticEnergy(bs) ==
    FSum([k \in 1..Len(bs) |->
             FMul(FMul(Half, bs[k].mass), Dot(bs[k].vel, bs[k].vel))], Len(bs))

\* G m_i m_j / |pos_i - pos_j| for the pair p.
PairEnergy(bs, p) ==
    FDiv(FMul(FMul(G, bs[p[2]].mass), bs[p[3]].mass), Separation(bs, p))

\* The energy as C14 gives it: the quotient of a pair of coincident bodies is
\* +inf (nan when one of the two has no mass), and so is no number.
EnergyOverAllPairs(bs) ==
    LET ps == PairsOf(bs)
    IN  IF Coincident(bs) = {}
        THEN FSub(KineticEnergy(bs),
                  FSum([k \in DOMAIN ps |-> PairEnergy(bs, ps[k])], Len(ps)))
        ELSE IF \E k \in Coincident(bs) :
                   FMul(bs[ps[k][2]].mass, bs[ps[k][3]].mass) = Zero
             THEN NaN
             ELSE NegInf

\* The same sum with the pairs of coincident bodies left out.
EnergyOverSeparatedPairs(bs) ==
    LET ps == PairsOf(bs)
    IN  FSub(KineticEnergy(bs),
             FSum([k \in DOMAIN ps |->
                      IF k \in Coincident(bs) THEN Zero
                      ELSE PairEnergy(bs, ps[k])], Len(ps)))

\* Every unordered pair is in PairsOf once.
EachPairOnce(bs) ==
    \A i, j \in 1..Len(bs) :
        i < j => Cardinality({k \in DOMAIN PairsOf(bs) :
                                 PairsOf(bs)[k] = <<"pair", i, j>>}) = 1

\* C14 as stated: for every collection, total_energy is the kinetic sum minus
\* the sum of G m_i m_j / |pos_i - pos_j| over every unordered pair.
C14_EnergyOverAllPairs ==
    report[1] = "energy" => report[2] = EnergyOverAllPairs(bodies)

\* C14, amended: total_energy is the kinetic sum minus the sum of
\* G m_i m_j / |pos_i - pos_j| over the unordered pairs of bodies that are
\* not at the same position, each counted once, with no softening term; a
\* pair of coincident bodies contributes nothing.
C14_EnergyOverSeparatedPairs ==
    report[1] = "energy" =>
        /\ report[2] = EnergyOverSeparatedPairs(bodies)
        /\ EachPairOnce(bodies)
        /\ Len(PairsOf(bodies)) * 2 = Len(bodies) * (Len(bodies) - 1)

\* The energy of three bodies has been computed after a call.
C14_Witness ==
    /\ report[1] = "energy"
    /\ Len(bodies) = 3
    /\ calls # <<>>
    /\ report[2] # KineticEnergy(bodies)

\* The energy of two coincident bodies has been computed.
C14_CoincidentWitness ==
    /\ report[1] = "energy"
    /\ Coincident(bodies) # {}

\* C15: the diagnostics only read the collection.  A call of total_energy,
\* total_angular_momentum or diagnostics_report leaves every body and every
\* call frame as it was, and so the steps of a run follow one another as if
\* no diagnostic had been called: the first starts from the collection as it
\* was built, each later one from the state the step before it returned, and
\* each returns the result of a step from the state it started from.
C15_DiagnosticsReadOnly ==
    /\ [][(report' # report /\ report'[1] # "none")
             => (bodies' = bodies /\ frames' = frames /\ ends' = ends)]_vars
    /\ [](\A k \in DOMAIN ends :
             /\ ends[k].pre = (IF k = 1 THEN init0 ELSE ends[k - 1].post)
             /\ ends[k].post = VerletStep(ends[k].pre, calls[k][2], calls[k][3]))
    /\ []((AllIdle /\ ends # <<>>) => bodies = ends[Len(ends)].post)

\* A step that was called right after a diagnostic, itself called after an
\* earlier step, is over and has moved the bodies.
C15_Witness ==
    \E t \in Threads :
        /\ StepDone(t)
        /\ frames[t].after \in {"energy", "H_vec", "report"}
        /\ Len(ends) >= 1
        /\ bodies # frames[t].pre
        /\ Len(bodies) >= 2

\* The pulls on body k of every body but k and z, added in the order of the
\* pair loop.
RECURSIVE SumPullsExcept(_, _, _, _)
SumPullsExcept(bs, k, z, j) ==
    IF j = 0 THEN ZeroVec
    ELSE IF j = k \/ j = z THEN SumPullsExcept(bs, k, z, j - 1)
    ELSE VAdd(SumPullsExcept(bs, k, z, j - 1), PullOn(bs, k, j))

Massless(bs) == {z \in DOMAIN bs : bs[z].mass = Zero}

\* C16: compute_accelerations tolerates a body of mass zero.  When it is
\* over, the acceleration of every other body is the sum of the pulls of the
\* bodies that have mass, to which the massless body has added exactly zero,
\* and the massless body has the acceleration the others give it.
C16_ZeroMassBody ==
    \A t \in Threads :
        AccDone(t) =>
            \A z \in Massless(bodies) :
                /\ \A k \in DOMAIN bodies \ {z} :
                      /\ PullOn(bodies, k, z) = ZeroVec
                      /\ bodies[k].acc = SumPullsExcept(bodies, k, z, Len(bodies))
                /\ bodies[z].acc = NewtonAcc(bodies, z)

\* compute_accelerations is over for a collection with a massless body that
\* has got an acceleration, next to bodies that have one too.
C16_Witness ==
    \E t \in Threads :
        /\ AccDone(t)
        /\ \E z \in Massless(bodies) :
              /\ bodies[z].acc # ZeroVec
              /\ \E k \in DOMAIN bodies \ {z} : bodies[k].acc # ZeroVec

Serial(bs, c1, c2) == VerletStep(VerletStep(bs, c1[2], c1[3]), c2[2], c2[3])

\* What the two calls leave when they run one after the other, in either order.
SerialOutcomes ==
    {Serial(init0, calls[1], calls[2]), Serial(init0, calls[2], calls[1])}

\* The states a thread can be handed when the two calls run one after the
\* other: the collection as built, or as one whole call has left it.
BetweenCalls ==
    {init0} \cup {VerletStep(init0, calls[k][2], calls[k][3]) : k \in DOMAIN calls}

RaceOver == AllIdle /\ Len(ends) = 2

\* Thread t has moved the positions and has not finished its second half kick.
MidStep(t) ==
    /\ frames[t].fn = "step"
    /\ frames[t].pc \in {"reset", "pairs", "pn_enter", "pn", "kick2"}
    /\ ~StepDone(t)

\* Thread t has just been handed the collection and has run nothing yet.
JustCalled(t) ==
    /\ frames[t].pc = "kick1"
    /\ frames[t].idx = 1
    /\ frames[t].pre = bodies

\* C18: two calls of step_system on one collection are safe only one after
\* the other.  Calls that did not overlap leave the collection a serial
\* execution leaves, each the result of a step from the state it was handed;
\* a thread that calls while the other has moved the positions and not yet
\* finished is handed a state no serial execution passes through.  (The
\* witness is an interleaving whose final state differs from both serial
\* orders.)
C18_OnlySerialCallsAreSteps ==
    /\ \A k \in DOMAIN ends :
          ends[k].alone =>
              ends[k].post = VerletStep(ends[k].pre, ends[k].dt, ends[k].rel)
    /\ (RaceOver /\ ends[1].alone /\ ends[2].alone)
          => bodies = Serial(init0, calls[1], calls[2])
    /\ \A t, u \in Threads :
          (t # u /\ JustCalled(t) /\ MidStep(u)) => frames[t].pre \notin BetweenCalls

\* The two calls overlapped, the second was handed a state of the middle of
\* the first, and the collection they leave is the result of neither serial
\* order.
C18_Witness ==
    /\ RaceOver
    /\ bodies \notin SerialOutcomes
    /\ \E k \in DOMAIN ends : ~ends[k].alone /\ ends[k].pre \notin BetweenCalls

\* ------------------------------------------------------------------------
\* C21, C22: the Newton loop of elements_to_state
\* ------------------------------------------------------------------------

\* elements_to_state is at the top of its loop, k passes made.
InNewtonLoop(k) ==
    /\ conv.fn = "elements_to_state"
    /\ conv.pc = "newton"
    /\ conv.n = k

\* C21 as stated: the Newton iteration of elements_to_state starts from
\* E0 = M when e < 0.8 and from E0 = pi when e >= 0.8.  (The loop of
\* elements_to_state starts from M whatever e is; an element set with
\* e = 15/16 refutes the statement.)
C21_SeedByEccentricity ==
    InNewtonLoop(0) =>
        conv.E = IF FLt(conv.arg[1].e, FromRatio(8, 10)) THEN conv.arg[1].M
                 ELSE Pi

\* The last correction of the Newton loop is below the tolerance 1e-10.
SmallCorrection == FLt(FAbs(conv.dE), Tiny)

\* C22 as stated: the loop of elements_to_state is left as soon as a
\* correction is below the tolerance, and is not given up before 30 passes
\* otherwise.  (The loop always makes exactly 10 passes: it goes on after a
\* correction of zero, and it stops after the tenth pass whatever the
\* correction is.)
C22_ToleranceOrBudget ==
    [][\A k \in 1..NewtonSteps :
          InNewtonLoop(k) =>
              /\ SmallCorrection => conv'.pc = "done"
              /\ (~SmallCorrection /\ k < 30) => conv'.pc = "newton"]_vars

\* ------------------------------------------------------------------------
\* C23: the denominators of state_to_elements
\* ------------------------------------------------------------------------

\* The values state_to_elements(r, v, mu) divides by on the path it takes:
\* hmag for i, rmag for e_vec and a, 2/rmag - vmag**2/mu for a, Nmag and hmag
\* for omega when Nmag != 0 and e > 1e-10, hmag and e*rmag for nu when
\* e > 1e-10, and 1 - e for E.
DenominatorsUsed(r, v, mu) ==
    LET rmag == Norm(r)
        vmag == Norm(v)
        h    == Cross(r, v)
        hmag == Norm(h)
        Nmag == Norm(Cross(IVec(0, 0, 1), h))
        e    == state_to_elements(r, v, mu).e
    IN  {hmag, rmag, mu,
         FSub(FDiv(FromInt(2), rmag), FDiv(FMul(vmag, vmag), mu)),
         FSub(FromInt(1), e)}
            \cup (IF Nmag # Zero /\ FLt(Tiny, e) THEN {Nmag} ELSE {})
            \cup (IF FLt(Tiny, e) THEN {FMul(e, rmag)} ELSE {})

\* The state <<r, v, mu>> has zero angular momentum, a zero node vector or
\* zero eccentricity, and is not hyperbolic.
DegenerateState(s) ==
    /\ \/ Norm(Cross(s[1], s[2])) = Zero
       \/ Norm(Cross(IVec(0, 0, 1), Cross(s[1], s[2]))) = Zero
       \/ state_to_elements(s[1], s[2], s[3]).e = Zero
    /\ FLe(state_to_elements(s[1], s[2], s[3]).e, FromInt(1))

\* C23 as stated: for a degenerate state state_to_elements divides by no
\* magnitude that is zero, and returns without an error.  (It divides by |h|
\* before any test: a state with r parallel to v has |h| = 0 and comes back
\* with i = nan and M = nan.)
C23_NoZeroDenominator ==
    (conv.pc = "done" /\ conv.fn = "state_to_elements"
        /\ DegenerateState(conv.arg)) =>
        /\ Zero \notin DenominatorsUsed(conv.arg[1], conv.arg[2], conv.arg[3])
        /\ conv.out.raised = "none"
        /\ NaN \notin {conv.out.i, conv.out.Omega, conv.out.omega, conv.out.M}

\* ------------------------------------------------------------------------
\* C24: the trail
\* ------------------------------------------------------------------------

\* The calls so far are k calls of add_trail_points, all with decimation N.
TrailCalls(k, N) ==
    /\ Len(calls) = k
    /\ \A p \in 1..k : calls[p] = <<"trail", N, FALSE>>

\* ceil(k / N)
CeilDiv(k, N) == (k + N - 1) \div N

\* C24 as stated: after k calls of add_trail_point with the same decimation
\* N on an empty trail, the trail holds ceil(k / N) points.  (The test is on
\* the length of the trail, not on the number of calls: with N >= 2 the
\* length stays 1 after the first call and nothing is recorded again.)
C24_EveryNthCall ==
    \A k \in 1..(MaxCalls + 2), N \in Decimations :
        TrailCalls(k, N) =>
            \A b \in DOMAIN bodies : Len(bodies[b].trail) = CeilDiv(k, N)

\* ------------------------------------------------------------------------
\* C25: the move to the barycentre
\* ------------------------------------------------------------------------

\* The field fld ("pos" or "vel") of body b.
FieldOf(b, fld) == IF fld = "pos" THEN b.pos ELSE b.vel

\* The largest magnitude among the components of the field fld in bs.
MaxAbs(bs, fld) ==
    LET S == {FAbs(FieldOf(bs[k], fld)[c]) : k \in DOMAIN bs, c \in 1..3}
    IN  CHOOSE x \in S : \A y \in S : FLe(y, x)

\* k unit roundoffs of x
Roundoffs(k, x) == FMul(Round(k, -Prec), x)

\* The calls of move_to_barycenter that have returned, on a collection of
\* non-zero total mass.
Moved ==
    {k \in DOMAIN ends :
        ends[k].fn = "barycenter" /\ get_total_mass(ends[k].pre) # Zero}

\* C25 as stated: after move_to_barycenter the mass-weighted sums of the
\* positions and of the velocities are zero, and every difference of two
\* positions or two velocities is what it was.
C25_BarycentreExact ==
    \A k \in Moved : \A fld \in {"pos", "vel"} :
        LET pre  == ends[k].pre
            post == ends[k].post
        IN  /\ SumWeighted(post, fld, Len(post)) = ZeroVec
            /\ \A a, b \in DOMAIN pre :
                  VSub(FieldOf(post[a], fld), FieldOf(post[b], fld))
                      = VSub(FieldOf(pre[a], fld), FieldOf(pre[b], fld))

\* C25, amended: the same to within rounding.  The mass-weighted sums are
\* zero to within four unit roundoffs of (total mass) * (largest
\* coordinate), the differences are kept to within four unit roundoffs of
\* the largest coordinate, and masses and accelerations are not touched.
C25_BarycentreToRounding ==
    \A k \in Moved : \A fld \in {"pos", "vel"} :
        LET pre  == ends[k].pre
            post == ends[k].post
            big  == MaxAbs(pre, fld)
        IN  /\ Len(post) = Len(pre)
            /\ Within(SumWeighted(post, fld, Len(post)), ZeroVec,
                      Roundoffs(4, FMul(get_total_mass(pre), big)))
            /\ \A a, b \in DOMAIN pre :
                  Within(VSub(FieldOf(post[a], fld), FieldOf(post[b], fld)),
                         VSub(FieldOf(pre[a], fld), FieldOf(pre[b], fld)),
                         Roundoffs(4, big))
            /\ \A a \in DOMAIN pre :
                  /\ post[a].mass = pre[a].mass
                  /\ post[a].acc = pre[a].acc

\* move_to_barycenter has moved a collection of several bodies whose centre
\* of mass was neither at the origin nor at rest.
C25_Witness ==
    \E k \in Moved :
        /\ Len(ends[k].pre) >= 2
        /\ get_center_of_mass(ends[k].pre)[1] # ZeroVec
        /\ get_center_of_mass(ends[k].pre)[2] # ZeroVec
        /\ ends[k].post # ends[k].pre


\* ------------------------------------------------------------------------
\* C26: the first half kick
\* ------------------------------------------------------------------------

\* The accelerations the force model gives the collection bs where it stands:
\* compute_accelerations, and compute_pn_accelerations after it.
ForceModelAccs(bs) == {AccOf(NewtonAll(bs)), AccOf(PnAll(NewtonAll(bs)))}

\* The first call on a freshly built system is a step, and it is about to
\* give its first half kick.
FirstKick(t) ==
    /\ Len(calls) = 1
    /\ InStep(t)
    /\ frames[t].pc = "kick1"
    /\ frames[t].idx = 1

\* C26 as stated: the first half kick of the first step on a freshly built
\* system uses the acceleration the force model gives the initial positions.
\* (Body.__init__ stores zeros and neither builder nor the driving loop
\* computes accelerations before the first step: the first half kick adds
\* nothing.)
C26_FirstKickConsistent ==
    \A t \in Threads : FirstKick(t) => AccOf(bodies) \in ForceModelAccs(bodies)

\* ------------------------------------------------------------------------
\* C27: linear momentum
\* ------------------------------------------------------------------------

\* sum(b.mass * b.vel for b in bodies)
LinearMomentum(bs) == SumWeighted(bs, "vel", Len(bs))

\* The largest magnitude among the components of v.
VMax(v) ==
    IF FLe(FAbs(v[1]), FAbs(v[2]))
    THEN (IF FLe(FAbs(v[2]), FAbs(v[3])) THEN FAbs(v[3]) ELSE FAbs(v[2]))
    ELSE (IF FLe(FAbs(v[1]), FAbs(v[3])) THEN FAbs(v[3]) ELSE FAbs(v[1]))

RECURSIVE MomentumScale(_, _, _, _)
\* The size of the terms a step adds up in the momentum of the bodies 1..k:
\* each body's mass times its velocity and its two half kicks.
MomentumScale(pre, post, dt, k) ==
    IF k = 0 THEN Zero
    ELSE FAdd(MomentumScale(pre, post, dt, k - 1),
              FMul(pre[k].mass,
                   FAdd(FAdd(VMax(pre[k].vel), VMax(post[k].vel)),
                        FMul(FAbs(dt), FAdd(VMax(pre[k].acc), VMax(post[k].acc))))))

\* The step that ended as ends[k] kept the total linear momentum, to
\* four unit roundoffs of the terms it added up.
MomentumKept(k) ==
    Within(LinearMomentum(ends[k].post), LinearMomentum(ends[k].pre),
           Roundoffs(4,
                     MomentumScale(ends[k].pre, ends[k].post, ends[k].dt,
                                   Len(ends[k].pre))))

\* The steps whose stored accelerations come from a previous step.
LaterSteps == {k \in DOMAIN ends : k >= 2 /\ ends[k].fn = "step"}

\* C27 as stated: for every step whose stored accelerations come from a
\* previous step the total linear momentum is the same before and after,
\* with the relativistic correction off and with it on.  (The correction is
\* added to bodies[1:] and bodies[0] gets no reaction: a step with the
\* correction on changes the total.)
C27_MomentumConserved == \A k \in LaterSteps : MomentumKept(k)

\* C27: a step whose stored accelerations come from a previous step and hold
\* no relativistic correction, and which applies none itself, keeps the
\* total linear momentum to rounding.
C27_NewtonianMomentum ==
    \A k \in LaterSteps :
        (~ends[k].rel /\ ~ends[k - 1].rel) => MomentumKept(k)

\* Such a step of a system of several bodies has ended.
C27_Witness ==
    \E k \in LaterSteps :
        /\ ~ends[k].rel /\ ~ends[k - 1].rel
        /\ Len(ends[k].pre) >= 2
        /\ LinearMomentum(ends[k].post) # LinearMomentum(ends[k].pre)


\* ------------------------------------------------------------------------
\* C28: what the relativistic correction reads
\* ------------------------------------------------------------------------

\* The collection thread t's step started from, after the first half kick
\* and the drift.
HalfStep(t) == DriftAll(KickAll(frames[t].pre, frames[t].dt), frames[t].dt)

\* Thread t's step is in the loop of compute_pn_accelerations.
InPnLoop(t) == InStep(t) /\ frames[t].pc = "pn"

\* C28: while a step of step_system(use_relativity=True) is in the loop of
\* compute_pn_accelerations, every position is the one after the drift and
\* every velocity the one after the first half kick, and each correction
\* added so far is the one computed from them.
C28_PnReadsHalfStep ==
    \A t \in Threads :
        (InPnLoop(t) /\ frames[t].alone) =>
            \A k \in DOMAIN bodies :
                /\ bodies[k].pos = HalfStep(t)[k].pos
                /\ bodies[k].vel = HalfStep(t)[k].vel
                /\ (2 <= k /\ k < frames[t].idx) =>
                       bodies[k].acc = PnAll(NewtonAll(HalfStep(t)))[k].acc

\* A correction has been added in a step whose half-step velocities differ
\* from the velocities it started with.
C28_Witness ==
    \E t \in Threads :
        /\ InPnLoop(t)
        /\ frames[t].idx = 3
        /\ bodies[2].vel # frames[t].pre[2].vel
        /\ bodies[2].pos # frames[t].pre[2].pos
        /\ bodies[2].acc # NewtonAll(HalfStep(t))[2].acc


\* ------------------------------------------------------------------------
\* C29: the empty collection and the single body
\* ------------------------------------------------------------------------

\* The call that ended last.
LastEnd == ends[Len(ends)]

\* A call of step_system has just returned or raised.
StepJustEnded == ends # <<>> /\ LastEnd.fn = "step" /\ ret # "none"

\* The single body of the step that just ended moved along its velocity and
\* is left with zero acceleration.
MovedStraight ==
    /\ LastEnd.post[1].acc = ZeroVec
    /\ LastEnd.post[1].vel = KickBody(LastEnd.pre[1], LastEnd.dt).vel
    /\ LastEnd.post[1].pos =
           VAdd(LastEnd.pre[1].pos, VScale(LastEnd.dt, LastEnd.post[1].vel))

\* C29 as stated: step_system returns without raising and changes nothing on
\* an empty collection, and moves the body of a one-body collection in a
\* straight line with zero acceleration, with the relativity flag off and
\* on.  (With the flag on, the default, compute_pn_accelerations reads
\* bodies[0] of the empty collection and raises IndexError.)
C29_EmptyAndSingle ==
    StepJustEnded =>
        /\ Len(LastEnd.pre) = 0 => (ret = "ok" /\ LastEnd.post = LastEnd.pre)
        /\ Len(LastEnd.pre) = 1 => (ret = "ok" /\ MovedStraight)


\* ------------------------------------------------------------------------
\* C30: the central star is bodies[0]
\* ------------------------------------------------------------------------

\* Body k of bs is its star: every other body is lighter.
IsCentralStar(bs, k) == \A j \in DOMAIN bs \ {k} : FLt(bs[j].mass, bs[k].mass)

\* C30: in a run that starts from a collection of load_solar_system or
\* create_test_system the star is bodies[0] at all times: no step changes
\* the number, the order or the masses of the bodies, and the central mass
\* compute_pn_accelerations works with is the mass of the star.
C30_StarStaysFirst ==
    /\ Len(bodies) = Len(init0)
    /\ Len(bodies) >= 1
    /\ IsCentralStar(bodies, 1)
    /\ \A k \in DOMAIN bodies : bodies[k].mass = init0[k].mass
    /\ \A t \in Threads :
           frames[t].pc = "pn" =>
               /\ frames[t].M = init0[1].mass
               /\ frames[t].idx >= 2

\* A system of a star and two planets has been stepped with the correction
\* on and is in the correction loop of a later step.
C30_Witness ==
    \E t \in Threads :
        /\ InPnLoop(t)
        /\ frames[t].idx = 3
        /\ Len(bodies) = 3
        /\ Len(calls) = MaxCalls
        /\ calls[1] = <<"step", frames[t].dt, TRUE>>
        /\ bodies[1].pos # init0[1].pos

====
